---- MODULE Spec2Model ----
(***************************************************************************)
(* A state-machine model of the Auralyn audio engine process               *)
(* (src-tauri/src/audio_engine/core.rs, plugins.rs): the control thread's  *)
(* command handlers and periodic tick, the output callback's command       *)
(* drain on the real-time (RT) thread, the deferred-unload state machine   *)
(* of the PluginManager and the lock-free queues between the two threads.  *)
(*                                                                         *)
(* Plugin ids are the numbers 1..MaxLoads (the code builds the id from the *)
(* plugin name and the load time in nanoseconds, so every load gets a      *)
(* fresh id); 0 stands for None where the code has Option<String>, and a   *)
(* processor is named by the id of the instance it was created from.       *)
(* The code's capacities (MAX_PLUGINS = 32, command queue 32, retirement   *)
(* queue 32, channel queue 16, meter queue 4096) are scaled down to the    *)
(* bounds below so that "full" is reachable.                               *)
(*                                                                         *)
(* `watch` selects which history is kept next to the program's state: the  *)
(* last stdin line and its responses ("stdio"), the events of the last     *)
(* tick ("meter"), the fate of one control message ("delivery"), or none.  *)
(* It is fixed by each specification and read by no handler.               *)
(***************************************************************************)
EXTENDS Integers, Sequences, FiniteSets, TLC

\* ---------------------------------------------------------------- bounds
MAX_PLUGINS == 2
CmdQueueCap == 2
RetireQueueCap == 1
MeterQueueCap == 1
ChannelQueueCap == 1
MaxLoads == 2
MaxSpill == 1
MaxAudioSpill == 2
MaxCalls == 2
MaxEngines == 2
MaxPipe == 2
MaxUlps == 120
MaxFed == 6
\* Smoother: |x| < 0.0001 in units of 2^-19; 1 / coeff
SnapUlps == 52
CoeffDivisor == 200
MaxUpdates == 1
ScanWidth == 3
MaxChannels == 4
MaxFrames == 2

NoId == 0
NoIdx == -1
Ids == 1..MaxLoads
Slots == 0..(MAX_PLUGINS - 1)
Paths == {"Plain.vst3", "Insight 2.vst3", "Missing.vst3"}
NoPath == ""
NoLoad == [path |-> NoPath, responses |-> <<>>]

VARIABLES
    \* PluginManager (plugins.rs:42-62)
    plugins,               \* ids of the instances held in `plugins`
    order,                 \* Vec<String>
    pending_init,          \* Vec<String>
    rt_index_by_id,        \* HashMap<String, u8>: id -> index or NoIdx
    id_by_rt_index,        \* Vec<Option<String>>, MAX_PLUGINS entries
    pending_drop_by_index, \* HashMap<u8, VstInstance>: index -> id or NoId
    next_id,               \* number of instances created so far
    inst_path,             \* VstInstance.path of every live instance
    burned_library_keys,   \* HashSet<String>
    burned_libraries,      \* Vec<Arc<Library>>: the path each pinned module was loaded from
    bypassed,              \* HashSet<String>
    \* Engine (core.rs:264-296)
    input_stream, output_stream,
    command_tx, level_rx, channel_rx, retire_rx,
    pending_audio_msgs,
    \* ring buffers (core.rs:1122-1137)
    cmd_ring, retire_ring, level_ring, channel_ring,
    \* state captured by the output callback (core.rs:1150-1238)
    rt_processors, pending_retire, rt_order, rt_bypassed,
    \* meter accumulator of run_loop (core.rs:368-373)
    updates_received,
    \* stdin / stdout
    last_line, last_mode, responses, events,
    last_meter,            \* the last LevelMeter event written: "levels", "silence" or "none"
    \* history of the unload protocol
    unloaded, awaiting_retire, tracked, watch,
    \* one block of audio: what a callback was given and what it produced
    block,
    \* the last LoadPlugin and its answer; the instances an unload dropped
    \* while their module's key was not in the burned set
    last_load, unpinned,
    \* the supervisor (AudioHost, audio.rs): engine processes, their stdout
    \* pipes and reader threads, the pending-reply slot, the calls made
    sup

pmVars == <<plugins, order, pending_init, rt_index_by_id, id_by_rt_index,
            pending_drop_by_index, next_id, inst_path, burned_library_keys,
            burned_libraries, bypassed>>
engineVars == <<input_stream, output_stream, command_tx, level_rx, channel_rx, retire_rx,
                pending_audio_msgs>>
ringVars == <<cmd_ring, retire_ring, level_ring, channel_ring>>
rtVars == <<rt_processors, pending_retire, rt_order, rt_bypassed>>
ioVars == <<last_line, last_mode, responses, events, last_meter>>
histVars == <<unloaded, awaiting_retire, tracked, watch>>
auxVars == <<block, last_load, unpinned, sup>>
vars == <<pmVars, engineVars, ringVars, rtVars, updates_received, ioVars, histVars, auxVars>>

\* ------------------------------------------------------------ sequences
RECURSIVE SeqFilterOut(_, _)
\* Vec::retain(|x| x != v)
SeqFilterOut(s, v) ==
    IF s = <<>> THEN <<>>
    ELSE IF Head(s) = v THEN SeqFilterOut(Tail(s), v)
    ELSE <<Head(s)>> \o SeqFilterOut(Tail(s), v)

SeqContains(s, v) == \E k \in 1..Len(s) : s[k] = v

Reverse(s) == [k \in 1..Len(s) |-> s[Len(s) + 1 - k]]

Min(S) == CHOOSE x \in S : \A y \in S : x <= y

\* ------------------------------------------------------- PluginManager
PM == [plugins |-> plugins, order |-> order,
       pending_init |-> pending_init, rt_index_by_id |-> rt_index_by_id,
       id_by_rt_index |-> id_by_rt_index,
       pending_drop_by_index |-> pending_drop_by_index, next_id |-> next_id,
       inst_path |-> inst_path, burned_library_keys |-> burned_library_keys,
       burned_libraries |-> burned_libraries,
       bypassed |-> bypassed]

PluginManager_new ==
    [plugins |-> {}, order |-> <<>>,
     pending_init |-> <<>>, rt_index_by_id |-> [i \in Ids |-> NoIdx],
     id_by_rt_index |-> [s \in Slots |-> NoId],
     pending_drop_by_index |-> [s \in Slots |-> NoId], next_id |-> 0,
     inst_path |-> [i \in Ids |-> NoPath], burned_library_keys |-> {},
     burned_libraries |-> <<>>,
     bypassed |-> {}]

\* path.to_ascii_lowercase() (the engine is a Windows program)
burned_library_key(path) ==
    CASE path = "Plain.vst3" -> "plain.vst3"
      [] path = "PLAIN.VST3" -> "plain.vst3"
      [] path = "Insight 2.vst3" -> "insight 2.vst3"
      [] path = "Missing.vst3" -> "missing.vst3"
      [] OTHER -> path

\* VstInstance::load fails for a path that holds no loadable plugin
VstInstance_load_ok(path) == path # "Missing.vst3"

\* instance.rs: the name (file stem of the path) contains "Insight 2"
needs_deferred_connection(path) == path = "Insight 2.vst3"

rt_index_of(pm, id) == pm.rt_index_by_id[id]

\* faulty variant: with every index allocated the first one is handed out again
alloc_rt_index_reusing(pm, id) ==
    IF id \in DOMAIN pm.rt_index_by_id /\ pm.rt_index_by_id[id] # NoIdx
    THEN [ok |-> TRUE, idx |-> pm.rt_index_by_id[id], pm |-> pm]
    ELSE LET free == {s \in Slots : pm.id_by_rt_index[s] = NoId}
             index == IF free = {} THEN 0 ELSE Min(free)
         IN [ok |-> TRUE, idx |-> index,
             pm |-> IF free = {} THEN pm
                    ELSE [pm EXCEPT !.id_by_rt_index[index] = id,
                                    !.rt_index_by_id[id] = index]]

alloc_rt_index(pm, id) ==
    IF id \in DOMAIN pm.rt_index_by_id /\ pm.rt_index_by_id[id] # NoIdx
    THEN [ok |-> TRUE, idx |-> pm.rt_index_by_id[id], pm |-> pm]
    ELSE LET free == {s \in Slots : pm.id_by_rt_index[s] = NoId}
         IN IF free = {}
            THEN [ok |-> FALSE, idx |-> NoIdx, pm |-> pm]
            ELSE LET index == Min(free)
                 IN [ok |-> TRUE, idx |-> index,
                     pm |-> [pm EXCEPT !.id_by_rt_index[index] = id,
                                       !.rt_index_by_id[id] = index]]

free_rt_index(pm, id) ==
    LET idx == pm.rt_index_by_id[id]
    IN IF idx = NoIdx THEN pm
       ELSE [pm EXCEPT !.rt_index_by_id[id] = NoIdx,
                       !.id_by_rt_index[idx] = NoId]

\* Result: ok, the new id, its rt index, the processor created (NoId: none)
load_plugin(pm, path, engine_running) ==
    LET id == pm.next_id + 1
        a == alloc_rt_index(pm, id)
        failed == [ok |-> FALSE, id |-> NoId, idx |-> NoIdx, processor |-> NoId, pm |-> pm]
    IN IF ~VstInstance_load_ok(path) THEN failed
       ELSE IF ~a.ok THEN failed
       ELSE IF needs_deferred_connection(path)
       THEN [ok |-> TRUE, id |-> id, idx |-> a.idx, processor |-> NoId,
             pm |-> [a.pm EXCEPT !.pending_init = Append(@, id),
                                 !.plugins = @ \cup {id},
                                 !.order = Append(@, id),
                                 !.inst_path[id] = path,
                                 !.next_id = id]]
       ELSE [ok |-> TRUE, id |-> id, idx |-> a.idx,
             processor |-> IF engine_running THEN id ELSE NoId,
             pm |-> [a.pm EXCEPT !.plugins = @ \cup {id},
                                 !.order = Append(@, id),
                                 !.inst_path[id] = path,
                                 !.next_id = id]]

remove_plugin(pm, id) ==
    IF id \in pm.plugins
    THEN [ok |-> TRUE,
          pm |-> free_rt_index([pm EXCEPT !.plugins = @ \ {id},
                                          !.order = SeqFilterOut(@, id),
                                          !.pending_init = SeqFilterOut(@, id),
                                          !.bypassed = @ \ {id},
                                          !.inst_path[id] = NoPath], id)]
    ELSE [ok |-> FALSE, pm |-> pm]

\* faulty variant: the instance is destroyed at once instead of being parked
\* in pending_drop_by_index
begin_unload_destroying(pm, id) ==
    LET idx == rt_index_of(pm, id)
    IN IF idx = NoIdx \/ id \notin pm.plugins
       THEN [ok |-> FALSE, idx |-> NoIdx, pm |-> pm]
       ELSE [ok |-> TRUE, idx |-> idx,
             pm |-> [pm EXCEPT !.plugins = @ \ {id},
                               !.order = SeqFilterOut(@, id),
                               !.bypassed = @ \ {id},
                               !.pending_init = SeqFilterOut(@, id)]]

\* faulty variant: the rt index is freed when the unload begins
begin_unload_freeing(pm, id) ==
    LET idx == rt_index_of(pm, id)
    IN IF idx = NoIdx \/ id \notin pm.plugins
       THEN [ok |-> FALSE, idx |-> NoIdx, pm |-> pm]
       ELSE [ok |-> TRUE, idx |-> idx,
             pm |-> free_rt_index([pm EXCEPT !.plugins = @ \ {id},
                                             !.order = SeqFilterOut(@, id),
                                             !.pending_init = SeqFilterOut(@, id),
                                             !.bypassed = @ \ {id},
                                             !.pending_drop_by_index[idx] = id], id)]

\* faulty variant: only the rt index is looked up, so an instance already
\* parked in pending_drop_by_index is unloaded a second time
begin_unload_index_only(pm, id) ==
    LET idx == rt_index_of(pm, id)
    IN IF idx = NoIdx
       THEN [ok |-> FALSE, idx |-> NoIdx, pm |-> pm]
       ELSE [ok |-> TRUE, idx |-> idx,
             pm |-> [pm EXCEPT !.plugins = @ \ {id},
                               !.order = SeqFilterOut(@, id),
                               !.pending_init = SeqFilterOut(@, id),
                               !.bypassed = @ \ {id},
                               !.pending_drop_by_index[idx] = id]]

begin_unload(pm, id) ==
    LET idx == rt_index_of(pm, id)
    IN IF idx = NoIdx \/ id \notin pm.plugins
       THEN [ok |-> FALSE, idx |-> NoIdx, pm |-> pm]
       ELSE [ok |-> TRUE, idx |-> idx,
             pm |-> [pm EXCEPT !.plugins = @ \ {id},
                               !.order = SeqFilterOut(@, id),
                               !.pending_init = SeqFilterOut(@, id),
                               !.bypassed = @ \ {id},
                               !.pending_drop_by_index[idx] = id]]

\* faulty variant: the module is pinned once more at every unload
finalize_unload_pinning_again(pm, index) ==
    LET dropped == pm.pending_drop_by_index[index]
        key == burned_library_key(pm.inst_path[dropped])
        pm1 == IF dropped # NoId
               THEN [pm EXCEPT !.pending_drop_by_index[index] = NoId,
                               !.burned_library_keys = @ \cup {key},
                               !.burned_libraries = Append(@, pm.inst_path[dropped]),
                               !.inst_path[dropped] = NoPath]
               ELSE pm
        id == pm1.id_by_rt_index[index]
    IN IF id # NoId
       THEN [pm1 EXCEPT !.id_by_rt_index[index] = NoId,
                        !.rt_index_by_id[id] = NoIdx]
       ELSE pm1

finalize_unload(pm, index) ==
    LET dropped == pm.pending_drop_by_index[index]
        key == burned_library_key(pm.inst_path[dropped])
        pm1 == IF dropped # NoId
               THEN [pm EXCEPT !.pending_drop_by_index[index] = NoId,
                               !.burned_library_keys = @ \cup {key},
                               !.burned_libraries =
                                   IF key \in pm.burned_library_keys THEN @
                                   ELSE Append(@, pm.inst_path[dropped]),
                               !.inst_path[dropped] = NoPath]
               ELSE pm
        id == pm1.id_by_rt_index[index]
    IN IF id # NoId
       THEN [pm1 EXCEPT !.id_by_rt_index[index] = NoId,
                        !.rt_index_by_id[id] = NoIdx]
       ELSE pm1

on_processor_retired(pm, index) == finalize_unload(pm, index)

RECURSIVE prepare_walk_with_pending(_, _)
\* faulty variant: the instances waiting in pending_init are prepared too
prepare_walk_with_pending(pm, ord) ==
    IF ord = <<>> THEN <<>>
    ELSE LET id == Head(ord)
             rest == prepare_walk_with_pending(pm, Tail(ord))
         IN IF id \in pm.plugins /\ rt_index_of(pm, id) # NoIdx
            THEN <<[index |-> rt_index_of(pm, id), processor |-> id]>> \o rest
            ELSE rest

RECURSIVE prepare_walk(_, _)
prepare_walk(pm, ord) ==
    IF ord = <<>> THEN <<>>
    ELSE LET id == Head(ord)
             rest == prepare_walk(pm, Tail(ord))
         IN IF SeqContains(pm.pending_init, id) THEN rest
            ELSE IF id \in pm.plugins /\ rt_index_of(pm, id) # NoIdx
            THEN <<[index |-> rt_index_of(pm, id), processor |-> id]>> \o rest
            ELSE rest

\* Vec<(u8, VstProcessor)>, one entry per entry of `order` that is loaded and not pending
prepare_for_audio_start(pm) == prepare_walk(pm, pm.order)

\* faulty variant: instances waiting in pending drop are still counted as active
runtime_stats_counting_pending(pm) ==
    [active_plugin_count |->
        Cardinality(pm.plugins) + Cardinality({s \in Slots : pm.pending_drop_by_index[s] # NoId}),
     pending_unload_count |-> Cardinality({s \in Slots : pm.pending_drop_by_index[s] # NoId}),
     burned_library_count |-> Len(pm.burned_libraries)]

runtime_stats(pm) ==
    [active_plugin_count |-> Cardinality(pm.plugins),
     pending_unload_count |-> Cardinality({s \in Slots : pm.pending_drop_by_index[s] # NoId}),
     burned_library_count |-> Len(pm.burned_libraries)]

\* ------------------------------------------------- AudioThreadMessage
\* `tag` marks the one message whose delivery is followed (history only).
AddProcessor(index, processor) ==
    [kind |-> "AddProcessor", index |-> index, processor |-> processor,
     order |-> <<>>, tag |-> FALSE]
RemoveProcessor(index) ==
    [kind |-> "RemoveProcessor", index |-> index, processor |-> NoId,
     order |-> <<>>, tag |-> FALSE]
SetBypass(index, active) ==
    [kind |-> "SetBypass", index |-> index, processor |-> NoId,
     order |-> <<>>, tag |-> FALSE, active |-> active]
ReorderProcessors(ord) ==
    [kind |-> "ReorderProcessors", index |-> NoIdx, processor |-> NoId,
     order |-> ord, tag |-> FALSE]

RECURSIVE reorder_walk(_, _, _)
reorder_walk(pm, ord, len) ==
    IF ord = <<>> \/ len >= MAX_PLUGINS THEN <<>>
    ELSE IF rt_index_of(pm, Head(ord)) # NoIdx
    THEN <<rt_index_of(pm, Head(ord))>> \o reorder_walk(pm, Tail(ord), len + 1)
    ELSE reorder_walk(pm, Tail(ord), len)

\* the rt indices of the ids of `order`, ids without an index skipped,
\* cut at MAX_PLUGINS entries (also the rt_order precomputed by Start)
rt_order_of(pm) == reorder_walk(pm, pm.order, 0)

make_reorder_message(pm) == ReorderProcessors(rt_order_of(pm))

\* ------------------------------------------------------------- Engine
EN == [input_stream |-> input_stream, output_stream |-> output_stream,
       command_tx |-> command_tx, level_rx |-> level_rx, channel_rx |-> channel_rx,
       retire_rx |-> retire_rx, pending_audio_msgs |-> pending_audio_msgs,
       cmd_ring |-> cmd_ring, retire_ring |-> retire_ring, level_ring |-> level_ring,
       channel_ring |-> channel_ring, rt_processors |-> rt_processors,
       rt_bypassed |-> rt_bypassed,
       pending_retire |-> pending_retire, rt_order |-> rt_order]

NoProcessors == [s \in Slots |-> NoId]

Engine_new ==
    [input_stream |-> FALSE, output_stream |-> FALSE,
     command_tx |-> FALSE, level_rx |-> FALSE, channel_rx |-> FALSE,
     retire_rx |-> FALSE, pending_audio_msgs |-> <<>>,
     cmd_ring |-> <<>>, retire_ring |-> <<>>, level_ring |-> 0,
     channel_ring |-> 0, rt_processors |-> NoProcessors,
     pending_retire |-> NoProcessors, rt_order |-> <<>>,
     rt_bypassed |-> [s \in Slots |-> FALSE]]

\* faulty variant: a message that finds the command queue full is dropped
queue_audio_msg_dropping(e, msg) ==
    IF e.command_tx
    THEN IF Len(e.cmd_ring) < CmdQueueCap
         THEN [e EXCEPT !.cmd_ring = Append(@, msg)]
         ELSE e
    ELSE [e EXCEPT !.pending_audio_msgs = Append(@, msg)]

queue_audio_msg(e, msg) ==
    IF e.command_tx /\ Len(e.cmd_ring) < CmdQueueCap
    THEN [e EXCEPT !.cmd_ring = Append(@, msg)]
    ELSE [e EXCEPT !.pending_audio_msgs = Append(@, msg)]

RECURSIVE queue_all(_, _)
\* consecutive queue_audio_msg calls of one handler
queue_all(e, msgs) ==
    IF msgs = <<>> THEN e
    ELSE queue_all(queue_audio_msg(e, Head(msgs)), Tail(msgs))

RECURSIVE flush_walk(_)
flush_walk(e) ==
    IF e.pending_audio_msgs = <<>> \/ Len(e.cmd_ring) >= CmdQueueCap THEN e
    ELSE flush_walk([e EXCEPT !.cmd_ring = Append(@, Head(e.pending_audio_msgs)),
                              !.pending_audio_msgs = Tail(@)])

flush_pending_audio_msgs(e) ==
    IF e.pending_audio_msgs = <<>> \/ ~e.command_tx THEN e ELSE flush_walk(e)

\* Dropping the output stream drops its callback and everything the callback
\* owns: the consumer of the command ring, the producers of the other rings,
\* the processors in rt_processors and pending_retire.
drop_callback(e) ==
    [e EXCEPT !.rt_processors = NoProcessors, !.pending_retire = NoProcessors,
              !.rt_order = <<>>, !.rt_bypassed = [s \in Slots |-> FALSE]]

\* faulty variant: a running output stream is stopped and nothing else; the
\* rest is torn down only by a Stop that finds no output stream
stop_audio_in_two_steps(e) ==
    IF e.output_stream
    THEN [drop_callback(e) EXCEPT !.output_stream = FALSE]
    ELSE [drop_callback(e) EXCEPT !.input_stream = FALSE,
                                  !.command_tx = FALSE, !.cmd_ring = <<>>,
                                  !.level_rx = FALSE, !.level_ring = 0,
                                  !.retire_rx = FALSE, !.retire_ring = <<>>,
                                  !.pending_audio_msgs = <<>>]

\* The Stop message pushed first dies with the ring; channel_rx is not reset.
stop_audio(e) ==
    [drop_callback(e) EXCEPT !.input_stream = FALSE, !.output_stream = FALSE,
                             !.command_tx = FALSE, !.cmd_ring = <<>>,
                             !.level_rx = FALSE, !.level_ring = 0,
                             !.retire_rx = FALSE, !.retire_ring = <<>>,
                             !.pending_audio_msgs = <<>>]

StartOutcomes == {"early_error", "output_build_error", "input_build_error",
                  "output_play_error", "input_play_error", "ok"}

\* rt_processors as filled from processors_vec (core.rs:1200-1210)
initial_rt_processors(procs) ==
    [s \in Slots |->
        IF \E k \in 1..Len(procs) : procs[k].index = s
        THEN procs[CHOOSE k \in 1..Len(procs) :
                      /\ procs[k].index = s
                      /\ \A j \in (k + 1)..Len(procs) : procs[j].index # s].processor
        ELSE NoId]

\* `outcome` is how far the (last) attempt got: the hardware decides it.
start_audio_impl(e, pm, outcome) ==
    LET e0 == IF e.output_stream THEN stop_audio(e) ELSE e
        rings == [e0 EXCEPT !.command_tx = TRUE, !.cmd_ring = <<>>,
                            !.retire_rx = TRUE, !.retire_ring = <<>>,
                            !.level_rx = TRUE, !.level_ring = 0,
                            !.channel_rx = TRUE, !.channel_ring = 0]
        built == [rings EXCEPT
                    !.rt_processors = initial_rt_processors(prepare_for_audio_start(pm)),
                    !.pending_retire = NoProcessors,
                    !.rt_bypassed = [s \in Slots |->
                                        \E id \in pm.bypassed : rt_index_of(pm, id) = s],
                    !.rt_order = rt_order_of(pm)]
    IN CASE outcome = "early_error" -> e0
         [] outcome \in {"output_build_error", "input_build_error"} -> drop_callback(built)
         [] outcome = "output_play_error" ->
                [drop_callback(built) EXCEPT !.input_stream = TRUE]
         [] outcome \in {"input_play_error", "ok"} ->
                [built EXCEPT !.input_stream = TRUE, !.output_stream = TRUE]

\* ------------------------------------- output callback (core.rs:1259-1716)
RECURSIVE remove_from_order(_, _)
remove_from_order(ord, idx) ==
    IF ord = <<>> THEN <<>>
    ELSE IF Head(ord) = idx THEN remove_from_order(Tail(ord), idx)
    ELSE <<Head(ord)>> \o remove_from_order(Tail(ord), idx)

RetiredProcessor(index, processor) == [index |-> index, processor |-> processor]

RECURSIVE flush_retire_walk(_, _)
\* core.rs:1261-1271: slots in ascending order, stop at the first failed push
flush_retire_walk(e, slot) ==
    IF slot >= MAX_PLUGINS THEN e
    ELSE IF e.pending_retire[slot] = NoId THEN flush_retire_walk(e, slot + 1)
    ELSE IF Len(e.retire_ring) < RetireQueueCap
    THEN flush_retire_walk(
            [e EXCEPT !.retire_ring = Append(@, RetiredProcessor(slot, e.pending_retire[slot])),
                      !.pending_retire[slot] = NoId], slot + 1)
    ELSE e

flush_pending_retire(e) == flush_retire_walk(e, 0)

\* faulty variant: a processor removed while the retirement queue is full is
\* dropped on the spot
apply_RemoveProcessor_dropping(e, index) ==
    LET proc == e.rt_processors[index]
        e1 == IF e.pending_retire[index] = NoId /\ proc # NoId
              THEN IF Len(e.retire_ring) < RetireQueueCap
                   THEN [e EXCEPT !.rt_processors[index] = NoId,
                                  !.retire_ring = Append(@, RetiredProcessor(index, proc))]
                   ELSE [e EXCEPT !.rt_processors[index] = NoId]
              ELSE e
    IN [e1 EXCEPT !.rt_bypassed[index] = FALSE,
                  !.rt_order = remove_from_order(@, index)]

apply_RemoveProcessor(e, index) ==
    LET proc == e.rt_processors[index]
        e1 == IF e.pending_retire[index] = NoId /\ proc # NoId
              THEN IF Len(e.retire_ring) < RetireQueueCap
                   THEN [e EXCEPT !.rt_processors[index] = NoId,
                                  !.retire_ring = Append(@, RetiredProcessor(index, proc))]
                   ELSE [e EXCEPT !.rt_processors[index] = NoId,
                                  !.pending_retire[index] = proc]
              ELSE e
    IN [e1 EXCEPT !.rt_bypassed[index] = FALSE,
                  !.rt_order = remove_from_order(@, index)]

apply_AddProcessor(e, index, processor) ==
    IF e.rt_processors[index] = NoId
    THEN [e EXCEPT !.rt_processors[index] = processor]
    ELSE e

apply_msg(e, msg) ==
    CASE msg.kind = "AddProcessor" -> apply_AddProcessor(e, msg.index, msg.processor)
      [] msg.kind = "RemoveProcessor" -> apply_RemoveProcessor(e, msg.index)
      [] msg.kind = "ReorderProcessors" -> [e EXCEPT !.rt_order = msg.order]
      [] msg.kind = "SetBypass" -> [e EXCEPT !.rt_bypassed[msg.index] = msg.active]
      [] OTHER -> e

RECURSIVE drain_commands(_)
\* while let Some(msg) = consumer.try_pop()
drain_commands(e) ==
    IF e.cmd_ring = <<>> THEN e
    ELSE drain_commands(apply_msg([e EXCEPT !.cmd_ring = Tail(@)], Head(e.cmd_ring)))

\* try_push of one meter sample per callback, of a channel snapshot when the
\* throttle lets it (scan_push); a full ring drops the sample
push_levels(e, scan_push) ==
    [e EXCEPT !.level_ring = IF @ < MeterQueueCap THEN @ + 1 ELSE @,
              !.channel_ring = IF scan_push /\ @ < ChannelQueueCap THEN @ + 1 ELSE @]

output_callback(e, scan_push) ==
    push_levels(drain_commands(flush_pending_retire(e)), scan_push)

\* ------------------------- the audio path (core.rs:1402-1716, 1808-1841)
\* Samples are integers; the buffers of one callback hold `frames` frames of
\* `channels` interleaved samples. The input and output gains are unity and
\* the noise reducer is off (Engine::new, core.rs:319).
Abs(x) == IF x < 0 THEN -x ELSE x

Max2(a, b) == IF a >= b THEN a ELSE b

RECURSIVE PeakOf(_)
\* fold(0.0, |m, x| m.max(x.abs()))
PeakOf(buf) == IF buf = <<>> THEN 0 ELSE Max2(Abs(Head(buf)), PeakOf(Tail(buf)))

\* input callback: every input frame becomes one frame of out_channels_target
\* samples; a mono input feeds every channel, otherwise channel k is fed by
\* input channel min(k, in_channels - 1). The audio ring (at least 8192
\* samples) has room.
push_frames(samples, in_channels, out_channels_target) ==
    IF in_channels = 0 \/ out_channels_target = 0 THEN <<>>
    ELSE LET frames_in == Len(samples) \div in_channels
         IN [k \in 1..(frames_in * out_channels_target) |->
                LET frame_idx == (k - 1) \div out_channels_target
                    out_ch == (k - 1) % out_channels_target
                    src_ch == IF in_channels = 1 THEN 0
                              ELSE Min({out_ch, in_channels - 1})
                IN samples[frame_idx * in_channels + src_ch + 1]]

\* what the native process call of a plugin does to a sample (any plugin
\* may turn silence into signal)
native_process(x) == x + 1

\* faulty variant: the plugin is called whatever its kill switch says
process_planar_unguarded(active_flag, inputs, frames) ==
    [native |-> TRUE,
     outputs |-> [ch \in DOMAIN inputs |-> [i \in 1..frames |-> native_process(inputs[ch][i])]]]

\* VstProcessor::process_planar: with the kill switch thrown every output
\* buffer is zeroed and the plugin is not called
process_planar(active_flag, inputs, frames) ==
    IF ~active_flag
    THEN [native |-> FALSE, outputs |-> [ch \in DOMAIN inputs |-> [i \in 1..frames |-> 0]]]
    ELSE [native |-> TRUE,
          outputs |-> [ch \in DOMAIN inputs |-> [i \in 1..frames |-> native_process(inputs[ch][i])]]]

\* faulty variant: a bypassed stage flips the alternation without copying
chain_stage_bypass_uncopied(rt, c, idx, frames) ==
    LET src == IF c.source_is_a THEN c.a ELSE c.b
        muted == [ch \in DOMAIN src |-> IF ch < rt.channels THEN [i \in 1..frames |-> 0]
                                        ELSE src[ch]]
        p == process_planar(rt.active[idx], src, frames)
    IN IF idx >= MAX_PLUGINS THEN c
       ELSE IF rt.rt_bypassed[idx] THEN [c EXCEPT !.source_is_a = ~c.source_is_a]
       ELSE IF rt.rt_muted[idx]
       THEN IF c.source_is_a THEN [c EXCEPT !.a = muted] ELSE [c EXCEPT !.b = muted]
       ELSE IF rt.rt_processors[idx] # NoId
       THEN LET c1 == IF c.source_is_a
                      THEN [c EXCEPT !.b = p.outputs, !.source_is_a = FALSE]
                      ELSE [c EXCEPT !.a = p.outputs, !.source_is_a = TRUE]
            IN IF p.native
               THEN [c1 EXCEPT !.invoked = @ \cup {rt.rt_processors[idx]}]
               ELSE [c1 EXCEPT !.silenced = @ \cup {rt.rt_processors[idx]}]
       ELSE c

\* faulty variant: a muted stage is skipped without zeroing the buffer
chain_stage_mute_unzeroed(rt, c, idx, frames) ==
    LET src == IF c.source_is_a THEN c.a ELSE c.b
        copied == [ch \in DOMAIN src |-> IF ch < rt.channels THEN src[ch]
                                         ELSE (IF c.source_is_a THEN c.b ELSE c.a)[ch]]
        p == process_planar(rt.active[idx], src, frames)
    IN IF idx >= MAX_PLUGINS THEN c
       ELSE IF rt.rt_bypassed[idx]
       THEN IF c.source_is_a THEN [c EXCEPT !.b = copied, !.source_is_a = FALSE]
            ELSE [c EXCEPT !.a = copied, !.source_is_a = TRUE]
       ELSE IF rt.rt_muted[idx] THEN c
       ELSE IF rt.rt_processors[idx] # NoId
       THEN LET c1 == IF c.source_is_a
                      THEN [c EXCEPT !.b = p.outputs, !.source_is_a = FALSE]
                      ELSE [c EXCEPT !.a = p.outputs, !.source_is_a = TRUE]
            IN IF p.native
               THEN [c1 EXCEPT !.invoked = @ \cup {rt.rt_processors[idx]}]
               ELSE [c1 EXCEPT !.silenced = @ \cup {rt.rt_processors[idx]}]
       ELSE c

\* one stage of the ping-pong loop; c: the two buffers, which one is the
\* source, the owners of the processors called and of those silenced
chain_stage(rt, c, idx, frames) ==
    LET src == IF c.source_is_a THEN c.a ELSE c.b
        copied == [ch \in DOMAIN src |-> IF ch < rt.channels THEN src[ch]
                                         ELSE (IF c.source_is_a THEN c.b ELSE c.a)[ch]]
        muted == [ch \in DOMAIN src |-> IF ch < rt.channels THEN [i \in 1..frames |-> 0]
                                        ELSE src[ch]]
        p == process_planar(rt.active[idx], src, frames)
    IN IF idx >= MAX_PLUGINS THEN c
       ELSE IF rt.rt_bypassed[idx]
       THEN IF c.source_is_a THEN [c EXCEPT !.b = copied, !.source_is_a = FALSE]
            ELSE [c EXCEPT !.a = copied, !.source_is_a = TRUE]
       ELSE IF rt.rt_muted[idx]
       THEN IF c.source_is_a THEN [c EXCEPT !.a = muted] ELSE [c EXCEPT !.b = muted]
       ELSE IF rt.rt_processors[idx] # NoId
       THEN LET c1 == IF c.source_is_a
                      THEN [c EXCEPT !.b = p.outputs, !.source_is_a = FALSE]
                      ELSE [c EXCEPT !.a = p.outputs, !.source_is_a = TRUE]
            IN IF p.native
               THEN [c1 EXCEPT !.invoked = @ \cup {rt.rt_processors[idx]}]
               ELSE [c1 EXCEPT !.silenced = @ \cup {rt.rt_processors[idx]}]
       ELSE c

RECURSIVE chain_walk(_, _, _, _)
chain_walk(rt, c, ord, frames) ==
    IF ord = <<>> THEN c
    ELSE chain_walk(rt, chain_stage(rt, c, Head(ord), frames), Tail(ord), frames)

rt_active_count(rt) == Cardinality({s \in Slots : rt.rt_processors[s] # NoId})

\* faulty variant: global mute silences the device but the meter still
\* reports the level of the chain's output
output_stage_metering_chain(rt, final_buf, in_max, data_len, frames) ==
    [data |-> [k \in 1..data_len |-> 0],
     levels |-> [input |-> in_max,
                 output |-> <<PeakOf(final_buf[0]), PeakOf(final_buf[1])>>]]

\* 3. result interleaving and output metering: with global mute the block is
\* silence and the meter reports silence; otherwise main left/right go to
\* the selected device channels
output_stage(rt, final_buf, in_max, data_len, frames) ==
    LET channels == rt.channels
        routed == [k \in 1..data_len |->
                     LET i == ((k - 1) \div channels) + 1
                         ch == (k - 1) % channels
                     IN IF i > frames THEN 0
                        ELSE IF rt.rt_input_r < channels /\ ch = rt.rt_input_r THEN final_buf[1][i]
                        ELSE IF rt.rt_input_l < channels /\ ch = rt.rt_input_l THEN final_buf[0][i]
                        ELSE 0]
    IN IF rt.rt_global_mute
       THEN [data |-> [k \in 1..data_len |-> 0],
             levels |-> [input |-> in_max, output |-> <<0, 0>>]]
       ELSE [data |-> routed,
             levels |-> [input |-> in_max,
                         output |-> <<PeakOf(final_buf[0]), PeakOf(final_buf[1])>>]]

\* the callback from the input fetch on: `audio` is what the audio ring
\* holds, data_len the length of the output block
process_block(rt, audio, data_len, scan_due, level_room, channel_room) ==
    LET channels == rt.channels
        max_ch == Max2(channels, 2)
        frames == data_len \div channels
        input_buf == [k \in 1..(frames * channels) |-> IF k <= Len(audio) THEN audio[k] ELSE 0]
        physical == [ch \in 0..(max_ch - 1) |->
                        [i \in 1..frames |->
                            IF ch < channels THEN input_buf[(i - 1) * channels + ch + 1] ELSE 0]]
        scan_limit == Min({channels, ScanWidth})
        channel_peaks == [ch \in 0..(ScanWidth - 1) |->
                            IF rt.rt_scan_enabled /\ ch < scan_limit
                            THEN PeakOf(physical[ch]) ELSE 0]
        sample_l == [i \in 1..frames |->
                        IF rt.rt_input_l < channels THEN physical[rt.rt_input_l][i] ELSE 0]
        sample_r == [i \in 1..frames |->
                        IF rt.rt_input_r < channels THEN physical[rt.rt_input_r][i] ELSE 0]
        planar_buf_a == IF channels >= 2
                        THEN [physical EXCEPT ![0] = sample_l, ![1] = sample_r]
                        ELSE physical
        planar_buf_b == [ch \in 0..(max_ch - 1) |-> [i \in 1..frames |-> 0]]
        c0 == [a |-> planar_buf_a, b |-> planar_buf_b, source_is_a |-> TRUE,
               invoked |-> {}, silenced |-> {}]
        c == IF ~rt.rt_global_bypass /\ rt_active_count(rt) > 0 /\ Len(rt.rt_order) > 0
             THEN chain_walk(rt, c0, rt.rt_order, frames)
             ELSE c0
        final_buf == IF c.source_is_a THEN c.a ELSE c.b
        out == output_stage(rt, final_buf, <<PeakOf(sample_l), PeakOf(sample_r)>>,
                            data_len, frames)
    IN IF frames = 0
       THEN [data |-> [k \in 1..data_len |-> 0], meter |-> <<>>, peaks |-> <<>>,
             invoked |-> {}, silenced |-> {}]
       ELSE [data |-> out.data,
             meter |-> IF level_room THEN <<out.levels>> ELSE <<>>,
             peaks |-> IF rt.rt_scan_enabled /\ scan_due /\ channel_room
                       THEN <<channel_peaks>> ELSE <<>>,
             invoked |-> c.invoked, silenced |-> c.silenced]

\* the state the callback closure captures at Start (core.rs:1150-1238)
DefaultRt(channels) ==
    [channels |-> channels, rt_global_mute |-> FALSE, rt_global_bypass |-> FALSE,
     rt_scan_enabled |-> TRUE, rt_input_l |-> 0, rt_input_r |-> 1,
     rt_order |-> <<>>, rt_processors |-> NoProcessors,
     rt_bypassed |-> [s \in Slots |-> FALSE], rt_muted |-> [s \in Slots |-> FALSE],
     active |-> [s \in Slots |-> FALSE]]

NoBlock == [phase |-> "none"]

NoOutput == [data |-> <<>>, meter |-> <<>>, peaks |-> <<>>, invoked |-> {}, silenced |-> {}]

BlockInput(rt, in_channels, input, frames, scan_due, level_room, channel_room) ==
    [phase |-> "in", rt |-> rt, in_channels |-> in_channels, input |-> input,
     audio |-> <<>>, data_len |-> frames * rt.channels, scan_due |-> scan_due,
     level_room |-> level_room, channel_room |-> channel_room, out |-> NoOutput]

SeqsOf(S, n) == [1..n -> S]

\* blocks on which global mute matters: any input, mute on or off, the meter
\* queue with room or full, the chain empty or one live plugin in it
MuteInputs ==
    { BlockInput([DefaultRt(ch) EXCEPT !.rt_global_mute = m,
                                       !.rt_order = IF p THEN <<0>> ELSE <<>>,
                                       !.rt_processors[0] = IF p THEN 1 ELSE NoId,
                                       !.active[0] = p],
                 ch, input, f, FALSE, room, TRUE) :
        ch \in 1..2, f \in 0..MaxFrames, m \in BOOLEAN, p \in BOOLEAN, room \in BOOLEAN,
        input \in UNION {SeqsOf({-2, 0, 1}, n) : n \in 0..(2 * MaxFrames)} }

\* blocks on which the channel scan matters: devices of 1..MaxChannels input
\* and output channels, one frame
ScanInputs ==
    { BlockInput([DefaultRt(ch) EXCEPT !.rt_scan_enabled = on], n, input, 1, due, TRUE, room) :
        ch \in 1..MaxChannels, n \in 1..MaxChannels, on \in BOOLEAN, due \in BOOLEAN,
        room \in BOOLEAN,
        input \in UNION {SeqsOf({0, 1, 2}, k) : k \in 1..MaxChannels} }

ChainOrders == {<<>>} \cup {<<s>> : s \in Slots} \cup {<<s, t>> : s \in Slots, t \in Slots}

\* blocks on which the plugin chain matters: stereo, one frame, any order
\* of at most two stages, any processors, flags and kill switches
ChainInputs ==
    { BlockInput([DefaultRt(2) EXCEPT !.rt_global_bypass = gb, !.rt_order = ord,
                                      !.rt_processors = procs, !.rt_bypassed = byp,
                                      !.rt_muted = mut, !.active = act],
                 2, <<1, 2>>, 1, FALSE, TRUE, TRUE) :
        gb \in BOOLEAN, ord \in ChainOrders,
        procs \in {f \in [Slots -> Ids \cup {NoId}] : \A s \in Slots : f[s] \in {NoId, s + 1}},
        byp \in [Slots -> BOOLEAN], mut \in [Slots -> BOOLEAN], act \in [Slots -> BOOLEAN] }

BlockInputs ==
    {b \in MuteInputs \cup ScanInputs : Len(b.input) = b.in_channels * (b.data_len \div b.rt.channels)}
        \cup ChainInputs


\* ---------------------- stream configuration (core.rs:926-1016, 1716-1948)
\* Option<u32>
NoneU32 == [some |-> FALSE, value |-> 0]
SomeU32(v) == [some |-> TRUE, value |-> v]

\* cpal::BufferSize
BufferSize_Default == [fixed |-> FALSE, size |-> 0]
BufferSize_Fixed(size) == [fixed |-> TRUE, size |-> size]

SampleRates == {44100, 48000, 96000}
BufferSizes == {128, 256}

\* what cpal reports of an output device: the default config's sample rate,
\* one supported sample-rate range, and the default config's
\* SupportedBufferSize (Range{min, max}, or Unknown)
OutputDevices ==
    {d \in [default_rate : {44100, 48000},
            min_sample_rate : {44100}, max_sample_rate : {48000, 96000},
            range_known : BOOLEAN, min : BufferSizes, max : BufferSizes] :
        /\ d.min <= d.max
        /\ ~d.range_known => (d.min = 128 /\ d.max = 128)}

\* how far one attempt of start_audio_impl gets: the hardware decides it
BuildOutcomes == {"ok", "output_build_error", "input_build_error",
                  "output_play_error", "input_play_error"}

\* core.rs:972-1016: the config handed to build_output_stream, and the
\* engine's current_sample_rate / current_block_size
resolve_config(out_dev, sample_rate, buffer_size) ==
    LET rate == IF /\ sample_rate.some
                   /\ out_dev.min_sample_rate <= sample_rate.value
                   /\ out_dev.max_sample_rate >= sample_rate.value
                THEN sample_rate.value ELSE out_dev.default_rate
        out_stream_config ==
            [sample_rate |-> rate,
             buffer_size |-> IF buffer_size.some THEN BufferSize_Fixed(buffer_size.value)
                             ELSE BufferSize_Default]
        block_size == IF out_stream_config.buffer_size.fixed
                      THEN out_stream_config.buffer_size.size ELSE 512
    IN [out_stream_config |-> out_stream_config,
        current_sample_rate |-> rate,
        current_block_size |->
            IF out_dev.range_known /\ out_dev.min = out_dev.max /\ out_dev.min # block_size
            THEN out_dev.min ELSE block_size]

\* faulty variant: the retry keeps the requested buffer size
RECURSIVE start_audio_config_keeping_size(_, _, _, _, _)
start_audio_config_keeping_size(out_dev, sample_rate, buffer_size, allow_fallback, outcomes) ==
    LET r == resolve_config(out_dev, sample_rate, buffer_size)
        outcome == Head(outcomes)
    IN CASE outcome = "ok" ->
                [ok |-> TRUE, built |-> r.out_stream_config, attempts |-> 1,
                 current_sample_rate |-> r.current_sample_rate,
                 current_block_size |-> r.current_block_size]
         [] outcome \in {"output_build_error", "input_build_error"} /\ allow_fallback ->
                LET again == start_audio_config_keeping_size(
                                 out_dev, SomeU32(out_dev.default_rate),
                                 buffer_size, FALSE, Tail(outcomes))
                IN [again EXCEPT !.attempts = @ + 1]
         [] OTHER ->
                [ok |-> FALSE, built |-> r.out_stream_config, attempts |-> 1,
                 current_sample_rate |-> r.current_sample_rate,
                 current_block_size |-> r.current_block_size]

\* start_audio_impl as far as the configuration goes: `outcomes` is what the
\* hardware does with the first attempt and with the retry
RECURSIVE start_audio_config(_, _, _, _, _)
start_audio_config(out_dev, sample_rate, buffer_size, allow_fallback, outcomes) ==
    LET r == resolve_config(out_dev, sample_rate, buffer_size)
        outcome == Head(outcomes)
    IN CASE outcome = "ok" ->
                [ok |-> TRUE, built |-> r.out_stream_config, attempts |-> 1,
                 current_sample_rate |-> r.current_sample_rate,
                 current_block_size |-> r.current_block_size]
         [] outcome \in {"output_build_error", "input_build_error"} /\ allow_fallback ->
                LET again == start_audio_config(out_dev, SomeU32(out_dev.default_rate),
                                                NoneU32, FALSE, Tail(outcomes))
                IN [again EXCEPT !.attempts = @ + 1]
         [] OTHER ->
                [ok |-> FALSE, built |-> r.out_stream_config, attempts |-> 1,
                 current_sample_rate |-> r.current_sample_rate,
                 current_block_size |-> r.current_block_size]

\* Command::Start (core.rs:627-639)
StartedResponse(sample_rate, buffer_size) ==
    [kind |-> "Started", sample_rate |-> sample_rate, buffer_size |-> buffer_size]

handle_Start_config(out_dev, sample_rate, buffer_size, outcomes) ==
    LET r == start_audio_config(out_dev, sample_rate, buffer_size, TRUE, outcomes)
    IN [result |-> r,
        response |-> IF r.ok THEN StartedResponse(r.current_sample_rate, r.current_block_size)
                     ELSE [kind |-> "Error", sample_rate |-> 0, buffer_size |-> 0]]

\* a Start command and the device it meets
ConfigInputs ==
    { [phase |-> "request", out_dev |-> d, sample_rate |-> sr, buffer_size |-> bs]
        : d \in OutputDevices,
          sr \in {NoneU32} \cup {SomeU32(v) : v \in SampleRates},
          bs \in {NoneU32} \cup {SomeU32(v) : v \in BufferSizes} }

\* ------------------------------------------- Smoother (core.rs:92-127)
\* f32 gains of one binade, [16, 32), counted in units of its spacing 2^-19:
\* `current` and `target` are the offsets from 16.0.  In that binade
\* t - c is exact, |t - c| < 0.0001 holds up to SnapUlps units, and
\* c + (t - c) * 0.005 is c plus a/200 units rounded to the nearest unit,
\* a tie going to the even mantissa.
Smoother_new(initial_value) == [current |-> initial_value, target |-> initial_value]
Smoother_set_target(sm, target) == [sm EXCEPT !.target = target]

\* (target - current) * coeff added to current, in f32
f32_add_scaled(current, target) ==
    LET a == Abs(target - current)
        q == a \div CoeffDivisor
        r == a % CoeffDivisor
        sign == IF target > current THEN 1 ELSE -1
        inc == IF 2 * r < CoeffDivisor THEN q
               ELSE IF 2 * r > CoeffDivisor THEN q + 1
               ELSE IF (current + sign * (q + 1)) % 2 = 0 THEN q + 1 ELSE q
    IN current + sign * inc

Smoother_next(sm) ==
    IF Abs(sm.current - sm.target) <= SnapUlps
    THEN [sm EXCEPT !.current = sm.target]
    ELSE [sm EXCEPT !.current = f32_add_scaled(sm.current, sm.target)]

Gains == 0..MaxUlps

SmootherInputs ==
    { [phase |-> "gain", sm |-> Smoother_new(initial_value)] : initial_value \in Gains }

\* ------------------- prepare_for_audio_start alone (plugins.rs:248-277)
\* the managers a stopped engine can hold after `steps` loads, unloads and
\* control ticks
RECURSIVE ManagersAfter(_)
ManagersAfter(steps) ==
    IF steps = 0 THEN {PluginManager_new}
    ELSE LET S == ManagersAfter(steps - 1)
         IN S \cup {load_plugin(pm, path, FALSE).pm :
                        pm \in {m \in S : m.next_id < MaxLoads},
                        path \in {"Plain.vst3", "Insight 2.vst3"}}
              \cup UNION {{remove_plugin(pm, id).pm : id \in pm.plugins} : pm \in S}
              \cup {[pm EXCEPT !.pending_init = <<>>] : pm \in S}

\* a manager at Start, and the instances whose prepare_processing fails
\* (IComponent::setActive refuses, instance.rs:3070-3073): the plugin
\* decides that
PrepareInputs ==
    { [phase |-> "loaded", pm |-> pm, failing |-> failing]
        : pm \in ManagersAfter(MaxLoads + 2), failing \in SUBSET Ids }

\* ------------------------------------------- devices (devices.rs, bin/audio_engine.rs)
\* A device name is the sequence of its blank-separated parts: <<"USB">>,
\* <<"USB", "(2)">>, <<"USB", "(2)", "[44/48kHz]">>.
NoDevice == [name |-> <<>>, host |-> "-", is_input |-> FALSE, is_default |-> FALSE, dev |-> <<>>]

\* what get_rates_str answers for a device (bin/audio_engine.rs:278-311)
RateStrs == {<<>>, <<"[44/48kHz]">>}

\* the devices cpal lists for one host and one direction, in cpal's order;
\* the first is the system default
DeviceLists ==
    { <<[n |-> <<"Realtek">>]>>,
      <<[n |-> <<"Realtek">>], [n |-> <<"USB">>]>>,
      <<[n |-> <<"USB">>], [n |-> <<"Realtek">>]>>,
      <<[n |-> <<"USB">>], [n |-> <<"USB">>]>> }

HostIds == {"ASIO", "Wasapi"}

\* a machine: its Wasapi inputs and outputs, one ASIO driver, and the rates
\* its devices support
Systems ==
    { [inputs |-> ins, outputs |-> outs, rates |-> r]
        : ins \in DeviceLists, outs \in DeviceLists, r \in RateStrs }

\* host.input_devices() / host.output_devices()
host_devices(system, host_id, is_input) ==
    IF host_id = "ASIO" THEN <<[n |-> <<"ASIO4ALL">>]>>
    ELSE IF is_input THEN system.inputs ELSE system.outputs

\* format!("{} ({})", n, idx) when the name occurs more than once, else n
candidate_base(list, i) ==
    LET n == list[i].n
        total == Cardinality({j \in 1..Len(list) : list[j].n = n})
        idx == Cardinality({j \in 1..i : list[j].n = n})
    IN IF total > 1 THEN n \o <<(<<"(1)", "(2)", "(3)">>)[idx]>> ELSE n

\* format!("{} ({}){}", n, idx, rates) / format!("{}{}", n, rates)
\* (bin/audio_engine.rs:417-423)
final_name(list, i, rates) == candidate_base(list, i) \o rates

\* one direction of one host in scan_devices
scan_host(system, host_name, is_input) ==
    LET list == host_devices(system, host_name, is_input)
        rates == IF host_name = "ASIO" THEN <<>> ELSE system.rates
    IN [i \in 1..Len(list) |->
          [name |-> final_name(list, i, rates),
           host |-> host_name,
           is_input |-> is_input,
           is_default |-> list[i].n = list[1].n,
           dev |-> <<host_name, is_input, i>>]]

\* scan_devices: ASIO before Wasapi, inputs before outputs; a host whose
\* device listing fails contributes nothing
scan_devices(system, failed) ==
    LET of(h) == IF h \in failed THEN <<>>
                 ELSE scan_host(system, h, TRUE) \o scan_host(system, h, FALSE)
    IN of("ASIO") \o of("Wasapi")

\* target_name.starts_with(&format!("{} [", candidate_base))
starts_with_bracket(target_name, base) ==
    /\ Len(target_name) > Len(base)
    /\ SubSeq(target_name, 1, Len(base)) = base
    /\ target_name[Len(base) + 1] \in {"[44/48kHz]", "[stale]", "[HD]"}

\* the index of the first device the target names, 0 for None
resolve_device(list, target_name) ==
    LET hits == {i \in 1..Len(list) :
                    \/ target_name = candidate_base(list, i)
                    \/ starts_with_bracket(target_name, candidate_base(list, i))}
    IN IF hits = {} THEN 0 ELSE CHOOSE i \in hits : \A j \in hits : i <= j

resolve_input_device(system, host_id, target_name) ==
    resolve_device(host_devices(system, host_id, TRUE), target_name)

resolve_output_device(system, host_id, target_name) ==
    resolve_device(host_devices(system, host_id, FALSE), target_name)

DeviceManager_new == [active_input |-> NoDevice, active_output |-> NoDevice]
set_active_input(dm, info) == [dm EXCEPT !.active_input = info]
set_active_output(dm, info) == [dm EXCEPT !.active_output = info]

NoneName == <<>>

\* the device part of start_audio_impl: Err leaves the manager as it was
start_audio_devices(dm, system, host_name, input_name, output_name) ==
    LET host_id == IF host_name = "ASIO" THEN "ASIO" ELSE "Wasapi"
        in_dev == IF input_name # NoneName
                  THEN resolve_input_device(system, host_id, input_name) ELSE 1
        out_dev == IF output_name # NoneName
                   THEN resolve_output_device(system, host_id, output_name) ELSE 1
        in_name == IF input_name # NoneName THEN input_name
                   ELSE host_devices(system, host_id, TRUE)[in_dev].n
        out_name == IF output_name # NoneName THEN output_name
                    ELSE host_devices(system, host_id, FALSE)[out_dev].n
    IN IF in_dev = 0 \/ out_dev = 0 THEN [ok |-> FALSE, dm |-> dm]
       ELSE [ok |-> TRUE,
             dm |-> set_active_output(
                      set_active_input(dm, [name |-> in_name, host |-> host_name,
                                            is_input |-> TRUE, is_default |-> FALSE,
                                            dev |-> <<host_id, TRUE, in_dev>>]),
                      [name |-> out_name, host |-> host_name,
                       is_input |-> FALSE, is_default |-> FALSE,
                       dev |-> <<host_id, FALSE, out_dev>>])]

\* DeviceManager::enumerate on the scanner's answer
enumerate(dm, scan) ==
    LET listed(l, a) == \E i \in 1..Len(l) :
                            /\ l[i].name = a.name
                            /\ l[i].host = a.host
                            /\ l[i].is_input = a.is_input
        l1 == IF dm.active_input # NoDevice /\ ~listed(scan, dm.active_input)
              THEN Append(scan, dm.active_input) ELSE scan
    IN IF dm.active_output # NoDevice /\ ~listed(l1, dm.active_output)
       THEN Append(l1, dm.active_output) ELSE l1

\* the device part of stop_audio (core.rs:1950-1960): the streams and the
\* queue ends are dropped, the device manager is not touched
stop_audio_devices(dm) == dm

\* the names a client picks from: those of a scan, and one with the rates
\* of an older scan
TargetNames(system) ==
    LET scan == scan_devices(system, {})
        names == {scan[i].name : i \in 1..Len(scan)}
    IN names \cup {<<"Realtek", "[stale]">>}

\* ------------------------------------------- StreamResampler (resampling.rs)
\* A sample is written 10 * v + ch for the frame value v and the channel ch;
\* input_chunk_size stands for resampler.input_frames_max() (1024-frame
\* chunks in the program, 2 and 3 here).
StreamResampler_new(input_chunk_size, channels) ==
    [input_accumulation |-> [ch \in 1..channels |-> [k \in 1..input_chunk_size |-> 0]],
     input_frames_collected |-> 0,
     input_chunk_size |-> input_chunk_size,
     channels |-> channels]

\* faulty variant: what does not fit the chunk being collected is dropped
process_loop_one_pass(rs, input, input_cursor, conversions) ==
    LET frames_in == Len(input) \div rs.channels
        space_left == rs.input_chunk_size - rs.input_frames_collected
        to_read == Min({space_left, frames_in - input_cursor})
        acc == [ch \in 1..rs.channels |->
                  [k \in 1..rs.input_chunk_size |->
                     IF k > rs.input_frames_collected /\ k <= rs.input_frames_collected + to_read
                     THEN input[(input_cursor + (k - 1 - rs.input_frames_collected)) * rs.channels + ch]
                     ELSE rs.input_accumulation[ch][k]]]
        full == rs.input_frames_collected + to_read = rs.input_chunk_size
    IN IF input_cursor >= frames_in THEN [rs |-> rs, conversions |-> conversions]
       ELSE [rs |-> [rs EXCEPT !.input_accumulation = acc,
                               !.input_frames_collected = IF full THEN 0 ELSE @ + to_read],
             conversions |-> IF full THEN Append(conversions, acc) ELSE conversions]

\* the while loop of process (resampling.rs:62-104); `conversions` collects
\* the buffers handed to resampler.process, which does not fail on a buffer
\* of input_chunk_size frames per channel
RECURSIVE process_loop(_, _, _, _)
process_loop(rs, input, input_cursor, conversions) ==
    LET frames_in == Len(input) \div rs.channels
        space_left == rs.input_chunk_size - rs.input_frames_collected
        to_read == Min({space_left, frames_in - input_cursor})
        acc == [ch \in 1..rs.channels |->
                  [k \in 1..rs.input_chunk_size |->
                     IF k > rs.input_frames_collected /\ k <= rs.input_frames_collected + to_read
                     THEN input[(input_cursor + (k - 1 - rs.input_frames_collected)) * rs.channels + ch]
                     ELSE rs.input_accumulation[ch][k]]]
        full == rs.input_frames_collected + to_read = rs.input_chunk_size
    IN IF input_cursor >= frames_in THEN [rs |-> rs, conversions |-> conversions]
       ELSE process_loop([rs EXCEPT !.input_accumulation = acc,
                                    !.input_frames_collected = IF full THEN 0 ELSE @ + to_read],
                         input, input_cursor + to_read,
                         IF full THEN Append(conversions, acc) ELSE conversions)

StreamResampler_process(rs, input) == process_loop(rs, input, 0, <<>>)

\* frames [v, v, ..] of a callback, interleaved
Interleaved(frames, channels) ==
    [k \in 1..Len(frames) * channels |->
        10 * frames[((k - 1) \div channels) + 1] + (((k - 1) % channels) + 1)]

FrameValues == {1, 2}

FramesUpTo(n) == UNION {[1..len -> FrameValues] : len \in 0..n}

ResamplerInputs ==
    { [phase |-> "resampling", rs |-> StreamResampler_new(input_chunk_size, channels),
       fed |-> <<>>, conversions |-> <<>>]
        : input_chunk_size \in {2, 3}, channels \in {1, 2} }

\* the names the devices of one host report: a name of its own, a name
\* that ends like an index, a name that goes on with a bracket
RawNames == {<<"Realtek">>, <<"USB">>, <<"USB", "(1)">>, <<"USB", "[HD]">>}

\* the device lists of one host and direction, up to three devices
NamedLists ==
    UNION {[1..len -> {[n |-> n] : n \in RawNames}] : len \in 1..3}

ResolveInputs ==
    { [phase |-> "scanned", list |-> list, rates |-> rates]
        : list \in NamedLists, rates \in RateStrs }

DevicesInputs ==
    { [phase |-> "idle", system |-> system, dm |-> DeviceManager_new,
       streaming |-> FALSE, scan |-> <<>>, dev_list |-> <<>>] : system \in Systems }

\* ipc.rs:75-90
Response(kind) == [kind |-> kind, val |-> <<>>]
ResponseWith(kind, val) == [kind |-> kind, val |-> val]

\* ------------------------------------------- the supervisor (audio.rs)
Calls == 1..MaxCalls
Engines == 1..MaxEngines

\* Result<IpcResponse> of execute_command
Ok(resp) == [ok |-> TRUE, resp |-> resp]
Err(msg) == [ok |-> FALSE, resp |-> Response(msg)]
NotReturned == Err("-")

\* AudioHost::new (audio.rs:175-190): no child, no stdin, an empty slot
AudioHost_new ==
    [child |-> FALSE, stdin |-> FALSE,
     engine |-> 0,                              \* the process `child` refers to
     exited |-> [g \in Engines |-> FALSE],      \* the process has ended, its stdout is closed
     inbox |-> [g \in Engines |-> <<>>],        \* command lines written to its stdin
     pipe |-> [g \in Engines |-> <<>>],         \* lines it wrote to stdout, not yet read
     reader |-> [g \in Engines |-> "none"],     \* the reader thread of its stdout
     pending_reply_tx |-> 0,                    \* Option<Sender>: 0 or the call it belongs to
     mailbox |-> [n \in Calls |-> <<>>],        \* what was sent into the channel of call n
     pc |-> "idle", call |-> 0,                 \* where execute_command stands
     results |-> [n \in Calls |-> NotReturned],      \* what execute_command returned
     aborted |-> {}]                            \* the calls an EOF found waiting

ResponseLine(n) == [kind |-> "Response", of |-> n]
EventLine == [kind |-> "Event", of |-> 0]
RawLine == [kind |-> "Raw", of |-> 0]

\* ensure_engine_running (audio.rs:239-493): a live child is kept; an exited
\* one is forgotten and a new engine spawned, with a reader thread of its own
ensure_engine_running(a, spawn_ok) ==
    IF a.child /\ ~a.exited[a.engine] THEN [ok |-> TRUE, a |-> a]
    ELSE IF spawn_ok /\ a.engine < MaxEngines
    THEN [ok |-> TRUE,
          a |-> [a EXCEPT !.child = TRUE, !.stdin = TRUE, !.engine = @ + 1,
                          !.reader[a.engine + 1] = "reading"]]
    ELSE [ok |-> FALSE, a |-> [a EXCEPT !.child = FALSE, !.stdin = FALSE]]

\* the reader thread on one line (audio.rs:402-474): a Response goes to the
\* sender in the slot, which is taken; anything else is logged or emitted.
\* The response carries the number of the command the engine answered.
reader_line(a, g) ==
    LET line == Head(a.pipe[g])
        a1 == [a EXCEPT !.pipe[g] = Tail(@)]
    IN IF line.kind = "Response" /\ a.pending_reply_tx # 0
       THEN [a1 EXCEPT !.mailbox[a.pending_reply_tx] =
                           Append(@, ResponseWith("Success", <<line.of>>)),
                       !.pending_reply_tx = 0]
       ELSE a1

\* faulty variant: the reader thread ends at EOF without looking at the slot
reader_eof_silent(a, g) == [a EXCEPT !.reader[g] = "done"]

\* the reader thread at EOF (audio.rs:476-491): a sender found in the slot
\* is taken and sent an Error
reader_eof(a, g) ==
    LET a1 == [a EXCEPT !.reader[g] = "done"]
    IN IF a.pending_reply_tx # 0
       THEN [a1 EXCEPT !.mailbox[a.pending_reply_tx] = Append(@, Response("Error")),
                       !.pending_reply_tx = 0,
                       !.aborted = IF a.pc = "awaiting" /\ a.call = a.pending_reply_tx
                                   THEN @ \cup {a.call} ELSE @]
       ELSE a1

\* ------------------------------------------------------------ helpers
SetPM(pm) ==
    /\ plugins' = pm.plugins
    /\ order' = pm.order
    /\ pending_init' = pm.pending_init
    /\ rt_index_by_id' = pm.rt_index_by_id
    /\ id_by_rt_index' = pm.id_by_rt_index
    /\ pending_drop_by_index' = pm.pending_drop_by_index
    /\ next_id' = pm.next_id
    /\ inst_path' = IF watch = "lib" THEN pm.inst_path ELSE inst_path
    /\ burned_library_keys' = IF watch = "lib" THEN pm.burned_library_keys
                              ELSE burned_library_keys
    /\ burned_libraries' = IF watch = "lib" THEN pm.burned_libraries ELSE burned_libraries
    /\ bypassed' = pm.bypassed

\* the instances a manager holds, in `plugins` or parked for a deferred drop
Instances(pm) ==
    pm.plugins \cup ({pm.pending_drop_by_index[s] : s \in Slots} \ {NoId})

\* the instances dropped between two states of the manager whose module key
\* is not in the burned set at the drop
DroppedUnpinned(before, after) ==
    IF watch = "lib"
    THEN {id \in Instances(before) \ Instances(after) :
            burned_library_key(before.inst_path[id]) \notin after.burned_library_keys}
    ELSE {}

SetEN(e) ==
    /\ input_stream' = e.input_stream
    /\ output_stream' = e.output_stream
    /\ command_tx' = e.command_tx
    /\ level_rx' = e.level_rx
    /\ channel_rx' = e.channel_rx
    /\ retire_rx' = e.retire_rx
    /\ pending_audio_msgs' = e.pending_audio_msgs
    /\ cmd_ring' = e.cmd_ring
    /\ retire_ring' = e.retire_ring
    /\ level_ring' = e.level_ring
    /\ channel_ring' = e.channel_ring
    /\ rt_processors' = e.rt_processors
    /\ pending_retire' = e.pending_retire
    /\ rt_order' = e.rt_order
    /\ rt_bypassed' = e.rt_bypassed


EngineMode ==
    IF output_stream THEN "running" ELSE IF command_tx THEN "half_started" ELSE "stopped"

\* the messages of one handler, the t-th one followed (t = 0: none)
\* the longest spill list followed
SpillBound == IF watch = "audio" THEN MaxAudioSpill ELSE MaxSpill

Tagged(msgs, t) == [k \in 1..Len(msgs) |-> IF k = t THEN [msgs[k] EXCEPT !.tag = TRUE] ELSE msgs[k]]
TagChoices(msgs) ==
    IF watch = "delivery" /\ tracked = "idle" /\ output_stream THEN 0..Len(msgs) ELSE {0}
TaggedCount(msgs) == Cardinality({k \in 1..Len(msgs) : msgs[k].tag})

\* what the last stdin line was and what was written in answer to it;
\* last_mode: the mode a Stop found the engine in. A command emits no meter
\* or channel event.
Reply(line, resps) ==
    /\ last_line' = IF watch = "stdio" THEN line ELSE last_line
    /\ last_mode' = IF watch = "stdio" /\ line = "Stop" THEN EngineMode ELSE "-"
    /\ responses' = IF watch = "stdio" THEN resps ELSE responses
    /\ events' = {}
    /\ last_meter' = last_meter

\* --------------------------------------- handle_command (core.rs:614-852)
handle_Start(e, pm, outcome) ==
    [en |-> start_audio_impl(e, pm, outcome),
     responses |-> <<IF outcome = "ok" THEN Response("Started") ELSE Response("Error")>>]

\* faulty variant: Stop answers Error when it finds no stream running
handle_Stop_strict(e) ==
    [en |-> stop_audio(e),
     responses |-> <<IF e.output_stream THEN Response("Success") ELSE Response("Error")>>]

handle_Stop(e) ==
    [en |-> stop_audio(e), responses |-> <<Response("Success")>>]

handle_LoadPlugin(e, pm, path, t) ==
    LET r == load_plugin(pm, path, e.output_stream)
        msgs == IF r.ok /\ r.processor # NoId
                THEN <<AddProcessor(r.idx, r.processor)>>
                     \o (IF r.id \in r.pm.bypassed THEN <<SetBypass(r.idx, TRUE)>> ELSE <<>>)
                     \o <<make_reorder_message(r.pm)>>
                ELSE <<>>
    IN [en |-> queue_all(e, Tagged(msgs, t)), pm |-> r.pm, ok |-> r.ok, msgs |-> msgs,
        responses |-> <<IF r.ok THEN ResponseWith("PluginLoaded", <<r.id>>)
                        ELSE Response("Error")>>]

handle_UnloadPlugin(e, pm, id, t) ==
    IF e.output_stream
    THEN LET r == begin_unload(pm, id)
             msgs == IF r.ok THEN <<RemoveProcessor(r.idx), make_reorder_message(r.pm)>>
                     ELSE <<>>
         IN [en |-> queue_all(e, Tagged(msgs, t)), pm |-> r.pm, ok |-> r.ok, msgs |-> msgs,
             responses |-> <<IF r.ok THEN Response("Success") ELSE Response("Error")>>]
    ELSE LET r == remove_plugin(pm, id)
         IN [en |-> e, pm |-> r.pm, ok |-> r.ok, msgs |-> <<>>,
             responses |-> <<IF r.ok THEN Response("Success") ELSE Response("Error")>>]

handle_ReorderPlugins(e, pm, ord, t) ==
    LET pm1 == [pm EXCEPT !.order = ord]
        msgs == <<make_reorder_message(pm1)>>
    IN [en |-> queue_all(e, Tagged(msgs, t)), pm |-> pm1, msgs |-> msgs,
        responses |-> <<Response("Success")>>]

handle_SetBypass(e, pm, id, active, t) ==
    LET pm1 == [pm EXCEPT !.bypassed = IF active THEN @ \cup {id} ELSE @ \ {id}]
        msgs == IF rt_index_of(pm, id) # NoIdx
                THEN <<SetBypass(rt_index_of(pm, id), active)>>
                ELSE <<>>
    IN [en |-> queue_all(e, Tagged(msgs, t)), pm |-> pm1, msgs |-> msgs,
        responses |-> <<Response("Success")>>]

handle_GetRuntimeStats(pm) ==
    LET st == runtime_stats(pm)
    IN <<ResponseWith("RuntimeStats", <<st.active_plugin_count, st.pending_unload_count>>)>>

\* ------------------------------- Event::AboutToWait (core.rs:389-552)
RECURSIVE retire_drain(_, _)
\* while let Some(retired) = retire_cons.try_pop()
retire_drain(pm, ring) ==
    IF ring = <<>> THEN pm
    ELSE retire_drain(on_processor_retired(pm, Head(ring).index), Tail(ring))

RECURSIVE deferred_msgs(_, _, _)
\* the messages queued by the deferred initialization of `ids`
deferred_msgs(pm, ids, running) ==
    IF ids = <<>> THEN <<>>
    ELSE LET id == Head(ids)
             index == rt_index_of(pm, id)
             mine == IF id \in pm.plugins /\ running /\ index # NoIdx
                     THEN <<AddProcessor(index, id)>>
                          \o (IF id \in pm.bypassed THEN <<SetBypass(index, TRUE)>> ELSE <<>>)
                          \o <<make_reorder_message(pm)>>
                     ELSE <<>>
         IN mine \o deferred_msgs(pm, Tail(ids), running)

about_to_wait(e, pm, acc, t, meter_due, silence_due) ==
    LET e1 == flush_pending_audio_msgs(e)
        pm1 == IF e1.retire_rx THEN retire_drain(pm, e1.retire_ring) ELSE pm
        e2 == IF e1.retire_rx THEN [e1 EXCEPT !.retire_ring = <<>>] ELSE e1
        pm2 == [pm1 EXCEPT !.pending_init = <<>>]
        msgs == deferred_msgs(pm2, pm1.pending_init, e2.output_stream)
        e3 == queue_all(e2, Tagged(msgs, t))
        acc1 == IF e3.level_rx THEN Min({acc + e3.level_ring, MaxUpdates}) ELSE acc
        meter == IF e3.level_rx /\ meter_due
                 THEN IF acc1 > 0 THEN {"LevelMeter"}
                      ELSE IF silence_due THEN {"LevelMeterSilence"} ELSE {}
                 ELSE {}
        acc2 == IF e3.level_rx /\ meter_due /\ acc1 > 0 THEN 0 ELSE acc1
        scan == IF e3.channel_rx /\ e3.channel_ring > 0 THEN {"ChannelLevels"} ELSE {}
        e4 == [e3 EXCEPT !.level_ring = IF e3.level_rx THEN 0 ELSE @,
                         !.channel_ring = IF e3.channel_rx THEN 0 ELSE @]
    IN [en |-> e4, pm |-> pm2, msgs |-> msgs, updates_received |-> acc2,
        events |-> meter \cup scan,
        retired |-> IF e1.retire_rx
                    THEN {e1.retire_ring[k].processor : k \in 1..Len(e1.retire_ring)}
                    ELSE {}]

\* ------------------------------------------------------------ actions
\* the state after Engine::new (core.rs:298-324), with the history to keep
Init(w) ==
    /\ watch = w
    /\ plugins = PluginManager_new.plugins
    /\ order = PluginManager_new.order
    /\ pending_init = PluginManager_new.pending_init
    /\ rt_index_by_id = PluginManager_new.rt_index_by_id
    /\ id_by_rt_index = PluginManager_new.id_by_rt_index
    /\ pending_drop_by_index = PluginManager_new.pending_drop_by_index
    /\ next_id = PluginManager_new.next_id
    /\ inst_path = PluginManager_new.inst_path
    /\ burned_library_keys = PluginManager_new.burned_library_keys
    /\ burned_libraries = PluginManager_new.burned_libraries
    /\ bypassed = PluginManager_new.bypassed
    /\ input_stream = Engine_new.input_stream
    /\ output_stream = Engine_new.output_stream
    /\ command_tx = Engine_new.command_tx
    /\ level_rx = Engine_new.level_rx
    /\ channel_rx = Engine_new.channel_rx
    /\ retire_rx = Engine_new.retire_rx
    /\ pending_audio_msgs = Engine_new.pending_audio_msgs
    /\ cmd_ring = Engine_new.cmd_ring
    /\ retire_ring = Engine_new.retire_ring
    /\ level_ring = Engine_new.level_ring
    /\ channel_ring = Engine_new.channel_ring
    /\ rt_processors = Engine_new.rt_processors
    /\ pending_retire = Engine_new.pending_retire
    /\ rt_order = Engine_new.rt_order
    /\ rt_bypassed = Engine_new.rt_bypassed
    /\ updates_received = 0
    /\ last_line = "none"
    /\ last_mode = "-"
    /\ responses = <<>>
    /\ events = {}
    /\ last_meter = "none"
    /\ unloaded = {}
    /\ awaiting_retire = {}
    /\ tracked = "idle"
    /\ block \in (CASE w = "block" -> BlockInputs
                    [] w = "config" -> ConfigInputs
                    [] w = "smoother" -> SmootherInputs
                    [] w = "prepare" -> PrepareInputs
                    [] w = "devices" -> DevicesInputs
                    [] w = "resolve" -> ResolveInputs
                    [] w = "resampler" -> ResamplerInputs
                    [] OTHER -> {NoBlock})
    /\ last_load = NoLoad
    /\ unpinned = {}
    /\ sup = AudioHost_new

\* Stop, and Start over a running stream (which stops it first), drop the
\* stream and with it every message in flight: a followed message is no
\* longer owed
TrackedAfterDrop == IF output_stream THEN "idle" ELSE tracked
TrackedAfter(t) == IF t > 0 THEN "inflight" ELSE tracked

Cmd_Start(outcome) ==
    LET h == handle_Start(EN, PM, outcome)
    IN /\ SetEN(h.en)
       /\ Reply("Start", h.responses)
       /\ tracked' = TrackedAfterDrop
       /\ UNCHANGED <<pmVars, updates_received, unloaded, awaiting_retire, watch>>
       /\ UNCHANGED auxVars

Cmd_Stop ==
    LET h == handle_Stop(EN)
    IN /\ SetEN(h.en)
       /\ Reply("Stop", h.responses)
       /\ tracked' = TrackedAfterDrop
       /\ UNCHANGED <<pmVars, updates_received, unloaded, awaiting_retire, watch>>
       /\ UNCHANGED auxVars

Cmd_LoadPlugin(path) ==
    /\ (VstInstance_load_ok(path) /\ \E s \in Slots : id_by_rt_index[s] = NoId)
           => next_id < MaxLoads
    /\ \E t \in TagChoices(handle_LoadPlugin(EN, PM, path, 0).msgs) :
         LET h == handle_LoadPlugin(EN, PM, path, t)
         IN /\ Len(h.en.pending_audio_msgs) <= SpillBound
            /\ SetEN(h.en)
            /\ SetPM(h.pm)
            /\ Reply("LoadPlugin", h.responses)
            /\ tracked' = TrackedAfter(t)
            /\ last_load' = IF watch = "lib" THEN [path |-> path, responses |-> h.responses]
                            ELSE last_load
            /\ UNCHANGED <<updates_received, unloaded, awaiting_retire, watch>>
            /\ UNCHANGED <<block, unpinned, sup>>

Cmd_UnloadPlugin(id) ==
    \E t \in TagChoices(handle_UnloadPlugin(EN, PM, id, 0).msgs) :
        LET h == handle_UnloadPlugin(EN, PM, id, t)
        IN /\ Len(h.en.pending_audio_msgs) <= SpillBound
           /\ SetEN(h.en)
           /\ SetPM(h.pm)
           /\ Reply("UnloadPlugin", h.responses)
           /\ tracked' = TrackedAfter(t)
           /\ unloaded' = IF h.ok THEN unloaded \cup {id} ELSE unloaded
           /\ awaiting_retire' = IF h.ok /\ output_stream THEN awaiting_retire \cup {id}
                                 ELSE awaiting_retire
           /\ unpinned' = unpinned \cup DroppedUnpinned(PM, h.pm)
           /\ UNCHANGED <<updates_received, watch>>
           /\ UNCHANGED <<block, last_load, sup>>

Cmd_ReorderPlugins(ord) ==
    \E t \in TagChoices(handle_ReorderPlugins(EN, PM, ord, 0).msgs) :
        LET h == handle_ReorderPlugins(EN, PM, ord, t)
        IN /\ Len(h.en.pending_audio_msgs) <= SpillBound
           /\ SetEN(h.en)
           /\ SetPM(h.pm)
           /\ Reply("ReorderPlugins", h.responses)
           /\ tracked' = TrackedAfter(t)
           /\ UNCHANGED <<updates_received, unloaded, awaiting_retire, watch>>
           /\ UNCHANGED auxVars

Cmd_SetBypass(id, active) ==
    \E t \in TagChoices(handle_SetBypass(EN, PM, id, active, 0).msgs) :
        LET h == handle_SetBypass(EN, PM, id, active, t)
        IN /\ Len(h.en.pending_audio_msgs) <= SpillBound
           /\ SetEN(h.en)
           /\ SetPM(h.pm)
           /\ Reply("SetBypass", h.responses)
           /\ tracked' = TrackedAfter(t)
           /\ UNCHANGED <<updates_received, unloaded, awaiting_retire, watch>>
           /\ UNCHANGED auxVars

Cmd_GetRuntimeStats ==
    /\ Reply("GetRuntimeStats", handle_GetRuntimeStats(PM))
    /\ UNCHANGED <<pmVars, engineVars, ringVars, rtVars, updates_received, histVars>>
    /\ UNCHANGED auxVars

\* the stdin reader (core.rs:334-360): a non-blank line that is no JSON
\* Command is logged (to stderr) and dropped
ReadUnparsed ==
    /\ Reply("unparsed", <<>>)
    /\ UNCHANGED <<pmVars, engineVars, ringVars, rtVars, updates_received, histVars>>
    /\ UNCHANGED auxVars

Tick ==
    \E meter_due \in BOOLEAN, silence_due \in BOOLEAN :
    \E t \in TagChoices(about_to_wait(EN, PM, updates_received, 0, meter_due, silence_due).msgs) :
        LET h == about_to_wait(EN, PM, updates_received, t, meter_due, silence_due)
        IN /\ SetEN(h.en)
           /\ SetPM(h.pm)
           /\ updates_received' = h.updates_received
           /\ events' = IF watch = "meter" THEN h.events ELSE {}
           /\ last_meter' = IF watch # "silence" THEN last_meter
                            ELSE IF "LevelMeter" \in h.events THEN "levels"
                            ELSE IF "LevelMeterSilence" \in h.events THEN "silence"
                            ELSE last_meter
           /\ tracked' = TrackedAfter(t)
           /\ awaiting_retire' = awaiting_retire \ h.retired
           /\ unpinned' = unpinned \cup DroppedUnpinned(PM, h.pm)
           /\ UNCHANGED <<last_line, last_mode, responses, unloaded, watch>>
           /\ UNCHANGED <<block, last_load, sup>>

\* what the chain of one callback works with once the commands are drained:
\* the kill switch of a processor is on while its instance is in `plugins`
\* (set at load, cleared by begin_unload and by the drop of the instance)
rt_of(e, pm) ==
    [DefaultRt(2) EXCEPT !.rt_order = e.rt_order, !.rt_processors = e.rt_processors,
                         !.rt_bypassed = e.rt_bypassed,
                         !.active = [s \in Slots |-> e.rt_processors[s] \in pm.plugins]]

\* the chain part of a callback on one stereo frame
chain_of(e, pm) ==
    LET rt == rt_of(e, pm)
        out == process_block(rt, <<1, 2>>, 2, FALSE, TRUE, TRUE)
        staged == {s \in Slots : rt.rt_processors[s] # NoId /\ SeqContains(rt.rt_order, s)}
    IN [phase |-> "out",
        \* the plugins with a stage in this callback whose kill switch was off
        killed |-> {rt.rt_processors[s] : s \in {x \in staged : ~rt.active[x]}},
        \* those of them whose slot was bypassed
        bypassed |-> {rt.rt_processors[s] :
                        s \in {x \in staged : ~rt.active[x] /\ rt.rt_bypassed[x]}},
        invoked |-> out.invoked, silenced |-> out.silenced]

OutputCallback ==
    /\ output_stream
    /\ \E scan_push \in BOOLEAN :
         /\ SetEN(output_callback(EN, scan_push))
         /\ block' = IF watch = "audio" THEN chain_of(output_callback(EN, scan_push), PM)
                     ELSE block
         /\ tracked' = LET n == TaggedCount(cmd_ring)
                       IN IF n = 0 THEN tracked
                          ELSE IF n = 1 /\ tracked = "inflight" THEN "idle" ELSE "duplicate"
    /\ UNCHANGED <<pmVars, updates_received, ioVars, unloaded, awaiting_retire, watch>>
    /\ UNCHANGED <<last_load, unpinned, sup>>

engineAll == <<pmVars, engineVars, ringVars, rtVars, updates_received, ioVars, histVars>>

\* the input callback fills the audio ring with the block the device delivers
InputCallback ==
    /\ block.phase = "in"
    /\ block' = [block EXCEPT !.phase = "ring",
                              !.audio = push_frames(block.input, block.in_channels,
                                                    block.rt.channels)]
    /\ UNCHANGED <<engineAll, last_load, unpinned, sup>>

\* the output callback processes one block
ProcessBlock ==
    /\ block.phase = "ring"
    /\ block' = [block EXCEPT !.phase = "out",
                              !.out = process_block(block.rt, block.audio, block.data_len,
                                                    block.scan_due, block.level_room,
                                                    block.channel_room)]
    /\ UNCHANGED <<engineAll, last_load, unpinned, sup>>

notSup == <<engineAll, block, last_load, unpinned>>

\* execute_command (audio.rs:497-528), first step: ensure_engine_running
Sup_Ensure ==
    /\ sup.pc = "idle" /\ sup.call < MaxCalls
    /\ \E spawn_ok \in BOOLEAN :
         LET r == ensure_engine_running(sup, spawn_ok)
         IN sup' = IF r.ok THEN [r.a EXCEPT !.pc = "ensured", !.call = @ + 1]
                   ELSE [r.a EXCEPT !.call = @ + 1, !.results[sup.call + 1] = Err("spawn")]
    /\ UNCHANGED notSup

\* the channel is created and its sender put into the slot
Sup_InstallTx ==
    /\ sup.pc = "ensured"
    /\ sup' = [sup EXCEPT !.pending_reply_tx = sup.call, !.pc = "installed"]
    /\ UNCHANGED notSup

\* the command line is written and flushed; the write to the pipe of an
\* engine that has exited fails or is lost
Sup_Write ==
    /\ sup.pc = "installed"
    /\ \E write_ok \in BOOLEAN :
         /\ ~sup.exited[sup.engine] => write_ok
         /\ sup' = IF ~write_ok
                   THEN [sup EXCEPT !.pc = "idle", !.results[sup.call] = Err("write")]
                   ELSE IF sup.exited[sup.engine] THEN [sup EXCEPT !.pc = "awaiting"]
                   ELSE [sup EXCEPT !.pc = "awaiting",
                                    !.inbox[sup.engine] = Append(@, sup.call)]
    /\ UNCHANGED notSup

\* rx.recv_timeout returns the response sent into the channel
Sup_Recv ==
    /\ sup.pc = "awaiting" /\ sup.mailbox[sup.call] # <<>>
    /\ sup' = [sup EXCEPT !.pc = "idle", !.results[sup.call] = Ok(Head(sup.mailbox[sup.call]))]
    /\ UNCHANGED notSup

\* ten seconds pass with nothing sent: the slot is cleared
Sup_Timeout ==
    /\ sup.pc = "awaiting" /\ sup.mailbox[sup.call] = <<>>
    /\ sup' = [sup EXCEPT !.pc = "idle", !.pending_reply_tx = 0,
                          !.results[sup.call] = Err("Timeout waiting for engine response")]
    /\ UNCHANGED notSup

\* the engine answers the oldest command it has read
Engine_Respond(g) ==
    /\ ~sup.exited[g] /\ sup.inbox[g] # <<>> /\ Len(sup.pipe[g]) < MaxPipe
    /\ sup' = [sup EXCEPT !.pipe[g] = Append(@, ResponseLine(Head(sup.inbox[g]))),
                          !.inbox[g] = Tail(@)]
    /\ UNCHANGED notSup

\* the engine writes an event or a plugin prints a line
Engine_Emit(g) ==
    /\ sup.reader[g] # "none" /\ ~sup.exited[g] /\ Len(sup.pipe[g]) < MaxPipe
    /\ \E line \in {EventLine, RawLine} : sup' = [sup EXCEPT !.pipe[g] = Append(@, line)]
    /\ UNCHANGED notSup

\* the engine exits or crashes: its stdout is closed
Engine_Exit(g) ==
    /\ sup.reader[g] # "none" /\ ~sup.exited[g]
    /\ sup' = [sup EXCEPT !.exited[g] = TRUE, !.inbox[g] = <<>>]
    /\ UNCHANGED notSup

Reader_Line(g) ==
    /\ sup.reader[g] = "reading" /\ sup.pipe[g] # <<>>
    /\ sup' = reader_line(sup, g)
    /\ UNCHANGED notSup

Reader_Eof(g) ==
    /\ sup.reader[g] = "reading" /\ sup.pipe[g] = <<>> /\ sup.exited[g]
    /\ sup' = reader_eof(sup, g)
    /\ UNCHANGED notSup

SupervisorNext ==
    \/ Sup_Ensure
    \/ Sup_InstallTx
    \/ Sup_Write
    \/ Sup_Recv
    \/ Sup_Timeout
    \/ \E g \in Engines : Engine_Respond(g)
    \/ \E g \in Engines : Engine_Emit(g)
    \/ \E g \in Engines : Engine_Exit(g)
    \/ \E g \in Engines : Reader_Line(g)
    \/ \E g \in Engines : Reader_Eof(g)

\* the supervisor, its engines and their reader threads
SupervisorSpec == Init("supervisor") /\ [][SupervisorNext]_vars

BlockNext == InputCallback \/ ProcessBlock

\* Start, as far as the stream configuration goes
StartConfig ==
    /\ block.phase = "request"
    /\ \E outcomes \in BuildOutcomes \X BuildOutcomes :
         LET h == handle_Start_config(block.out_dev, block.sample_rate,
                                      block.buffer_size, outcomes)
         IN block' = [phase |-> "answered", out_dev |-> block.out_dev,
                      sample_rate |-> block.sample_rate,
                      buffer_size |-> block.buffer_size, outcomes |-> outcomes,
                      result |-> h.result, response |-> h.response]
    /\ UNCHANGED <<engineAll, last_load, unpinned, sup>>

\* every Start, on every device of OutputDevices
ConfigSpec == Init("config") /\ [][StartConfig]_vars

\* AudioThreadMessage::SetGain (core.rs:1368-1373)
SetGainTarget ==
    /\ block.phase = "gain"
    /\ \E value \in Gains :
         block' = [block EXCEPT !.sm = Smoother_set_target(block.sm, value)]
    /\ UNCHANGED <<engineAll, last_load, unpinned, sup>>

\* one sample of the gain loop (core.rs:1631-1638)
GainSample ==
    /\ block.phase = "gain"
    /\ block' = [block EXCEPT !.sm = Smoother_next(block.sm)]
    /\ UNCHANGED <<engineAll, last_load, unpinned, sup>>

\* a smoother, over every initial gain and every target of Gains
SmootherSpec == Init("smoother") /\ [][SetGainTarget \/ GainSample]_vars

\* start_audio_impl (core.rs:1144-1210): the processors handed to the callback
PrepareForAudioStart ==
    /\ block.phase = "loaded"
    /\ block' = [phase |-> "prepared", pm |-> block.pm, failing |-> block.failing,
                 processors |-> initial_rt_processors(prepare_for_audio_start(block.pm))]
    /\ UNCHANGED <<engineAll, last_load, unpinned, sup>>

\* every Start of a stopped engine, over the managers of PrepareInputs
PrepareSpec == Init("prepare") /\ [][PrepareForAudioStart]_vars

\* Command::Start, as far as the devices go (core.rs:944-970, 1087-1110)
StartDevices ==
    /\ block.phase \in {"idle", "started", "stopped", "listed"}
    /\ \E host_name \in {"ASIO", "Wasapi", "WASAPI"},
          input_name \in {NoneName} \cup TargetNames(block.system),
          output_name \in {NoneName} \cup TargetNames(block.system) :
         LET r == start_audio_devices(block.dm, block.system, host_name,
                                      input_name, output_name)
         IN block' = [phase |-> IF r.ok THEN "started" ELSE "idle",
                      system |-> block.system, dm |-> r.dm,
                      streaming |-> r.ok, scan |-> <<>>, dev_list |-> <<>>]
    /\ UNCHANGED <<engineAll, last_load, unpinned, sup>>

\* Command::GetDevices (core.rs:620-626)
GetDevices ==
    /\ block.phase \in {"idle", "started", "stopped"}
    /\ \E failed \in SUBSET HostIds :
         LET scan == scan_devices(block.system, failed)
         IN block' = [block EXCEPT !.phase = "listed", !.scan = scan,
                                   !.dev_list = enumerate(block.dm, scan)]
    /\ UNCHANGED <<engineAll, last_load, unpinned, sup>>

\* one input callback of a stream that resamples (core.rs:1843-1856)
ResamplerProcess ==
    /\ block.phase = "resampling"
    /\ \E frames \in FramesUpTo(MaxFed - Len(block.fed)) :
         LET r == StreamResampler_process(block.rs, Interleaved(frames, block.rs.channels))
         IN block' = [phase |-> "resampling", rs |-> r.rs,
                      fed |-> block.fed \o frames,
                      conversions |-> block.conversions \o r.conversions]
    /\ UNCHANGED <<engineAll, last_load, unpinned, sup>>

\* a resampler fed up to MaxFed frames in callbacks of every size
ResamplerSpec == Init("resampler") /\ [][ResamplerProcess]_vars

\* a Start naming the i-th device as the scan of the same list shows it
ResolveScanned ==
    /\ block.phase = "scanned"
    /\ \E i \in 1..Len(block.list) :
         LET target_name == final_name(block.list, i, block.rates)
         IN block' = [phase |-> "resolved", list |-> block.list, rates |-> block.rates,
                      dev |-> i, target_name |-> target_name,
                      resolved |-> resolve_device(block.list, target_name)]
    /\ UNCHANGED <<engineAll, last_load, unpinned, sup>>

\* the scanner's name of every device of NamedLists, resolved on its list
ResolveSpec == Init("resolve") /\ [][ResolveScanned]_vars

\* Command::Stop, as far as the devices go (core.rs:662-665, 1950-1960)
StopDevices ==
    /\ block.phase \in {"started", "listed"}
    /\ block.streaming
    /\ block' = [phase |-> "stopped", system |-> block.system,
                 dm |-> stop_audio_devices(block.dm),
                 streaming |-> FALSE, scan |-> <<>>, dev_list |-> <<>>]
    /\ UNCHANGED <<engineAll, last_load, unpinned, sup>>

\* Start, Stop and GetDevices, on every machine of Systems
DevicesSpec == Init("devices") /\ [][StartDevices \/ StopDevices \/ GetDevices]_vars

\* the audio path alone, over every block of BlockInputs
BlockSpec == Init("block") /\ [][BlockNext]_vars

\* the lists tried for ReorderPlugins: the empty list and the current list reversed
ReorderInputs == {<<>>, Reverse(order)}

Next ==
    \/ \E outcome \in StartOutcomes : Cmd_Start(outcome)
    \/ Cmd_Stop
    \/ \E path \in Paths : Cmd_LoadPlugin(path)
    \/ \E id \in Ids : Cmd_UnloadPlugin(id)
    \/ \E ord \in ReorderInputs : Cmd_ReorderPlugins(ord)
    \/ Cmd_GetRuntimeStats
    \/ ReadUnparsed
    \/ Tick
    \/ OutputCallback

Spec == Init("none") /\ [][Next]_vars

\* loads, unloads, ticks and callbacks over a stream that starts and stops
\* (the metering inputs held fixed as in StdioNext below)
LibNext ==
    \/ Cmd_Start("ok")
    \/ Cmd_Stop
    \/ \E path \in Paths \cup {"PLAIN.VST3"} : Cmd_LoadPlugin(path)
    \/ \E id \in Ids : Cmd_UnloadPlugin(id)
    \/ Tick /\ updates_received' = 0
    \/ OutputCallback /\ channel_ring' = channel_ring

\* a stream is started once; plugins are loaded, bypassed and unloaded;
\* the chain of every callback is recorded
AudioNext ==
    \/ Cmd_Start("ok") /\ ~output_stream
    \/ Cmd_LoadPlugin("Plain.vst3")
    \/ \E id \in Ids : Cmd_UnloadPlugin(id)
    \/ \E id \in plugins : Cmd_SetBypass(id, TRUE)
    \/ Tick /\ updates_received' = 0
    \/ OutputCallback /\ channel_ring' = channel_ring

AudioSpec == Init("audio") /\ [][AudioNext]_vars

\* the program with the library bookkeeping recorded
LibSpec == Init("lib") /\ [][LibNext]_vars

\* Every command, tick and callback, with the two inputs of the metering
\* path held fixed: the meter interval has elapsed at each tick (the tick
\* leaves no update counted) and the channel-scan throttle of the callback
\* stays closed. No command handler reads the meter or channel queues.
StdioNext ==
    \/ \E outcome \in StartOutcomes : Cmd_Start(outcome)
    \/ Cmd_Stop
    \/ \E path \in Paths : Cmd_LoadPlugin(path)
    \/ \E id \in Ids : Cmd_UnloadPlugin(id)
    \/ \E ord \in ReorderInputs : Cmd_ReorderPlugins(ord)
    \/ Cmd_GetRuntimeStats
    \/ ReadUnparsed
    \/ Tick /\ updates_received' = 0
    \/ OutputCallback /\ channel_ring' = channel_ring

\* the program with the stdin/stdout history kept
StdioSpec == Init("stdio") /\ [][StdioNext]_vars

\* the same program with the events of the last tick kept
MeterSpec == Init("meter") /\ [][Next]_vars

\* the metering path: a stream that starts, stops and fails to start, with
\* plugins loaded and unloaded, its callback and the tick, with the last
\* LevelMeter event kept
SilenceNext ==
    \/ \E outcome \in StartOutcomes : Cmd_Start(outcome)
    \/ Cmd_Stop
    \/ Cmd_LoadPlugin("Plain.vst3")
    \/ \E id \in Ids : Cmd_UnloadPlugin(id)
    \/ Tick
    \/ OutputCallback

SilenceSpec == Init("silence") /\ [][SilenceNext]_vars

\* streams one after the other, every plugin command issued while one runs:
\* each message on its way to the RT thread was issued during the stream
\* that is running
OrderNext ==
    \/ ~output_stream /\ Cmd_Start("ok")
    \/ Cmd_Stop
    \/ output_stream /\ \E path \in Paths : Cmd_LoadPlugin(path)
    \/ output_stream /\ \E id \in Ids : Cmd_UnloadPlugin(id)
    \/ output_stream /\ \E ord \in ReorderInputs : Cmd_ReorderPlugins(ord)
    \/ Tick
    \/ OutputCallback

OrderSpec == Init("none") /\ [][OrderNext]_vars

\* streams that start and stop, plugins loaded and unloaded, and SetBypass
\* on and off for every id, loaded or not (the metering inputs held fixed)
FlagsNext ==
    \/ Cmd_Start("ok")
    \/ Cmd_Stop
    \/ Cmd_LoadPlugin("Plain.vst3")
    \/ \E id \in Ids : Cmd_UnloadPlugin(id)
    \/ \E id \in Ids, active \in BOOLEAN : Cmd_SetBypass(id, active)
    \/ Tick /\ updates_received' = 0
    \/ OutputCallback /\ channel_ring' = channel_ring

FlagsSpec == Init("none") /\ [][FlagsNext]_vars

\* a tick that finds a spilled message and room in the command queue
FlushingTick == Tick /\ pending_audio_msgs # <<>> /\ Len(cmd_ring) < CmdQueueCap

\* a callback that has something to do: a command to apply, a retirement to
\* flush or a meter sample to push
CallbackActs == output_stream /\ \E scan_push \in BOOLEAN : output_callback(EN, scan_push) # EN

\* the commands that queue control messages (plain plugins only), the tick
\* and the callback
DeliveryNext ==
    \/ \E outcome \in StartOutcomes : Cmd_Start(outcome)
    \/ Cmd_Stop
    \/ Cmd_LoadPlugin("Plain.vst3")
    \/ \E id \in Ids : Cmd_UnloadPlugin(id)
    \/ \E ord \in ReorderInputs : Cmd_ReorderPlugins(ord)
    \/ Tick
    \/ OutputCallback

\* One control message is followed, under the fairness the scheduling gives.
\* The backend keeps calling the output callback of a running stream: weak
\* fairness, WF_vars(OutputCallback). The control thread ticks every 8 ms
\* (core.rs:380-382) and every callback leaves the command queue empty, so
\* ticks that find room in it recur: strong fairness, SF_vars(FlushingTick).
\* Both are stated with ENABLED written out as the state predicate it is
\* (a tick is never disabled, and one that finds a spilled message and room
\* in the queue moves the message).
DeliverySpec ==
    /\ Init("delivery") /\ [][DeliveryNext]_vars
    /\ \/ []<>(~CallbackActs)
       \/ []<><<OutputCallback>>_vars
    /\ \/ <>[](pending_audio_msgs = <<>> \/ Len(cmd_ring) >= CmdQueueCap)
       \/ []<><<FlushingTick>>_vars

\* ------------------------------------------------------------- claims
\* owners of the processors the RT thread holds in its slot array or in
\* its pending-retire array
RtHeld == ({rt_processors[s] : s \in Slots} \cup {pending_retire[s] : s \in Slots}) \ {NoId}

\* instances alive on the control side
PendingDrop == {pending_drop_by_index[s] : s \in Slots} \ {NoId}
Alive == plugins \cup PendingDrop

RetiredIndices == {retire_ring[k].index : k \in 1..Len(retire_ring)}

\* finalize_unload(s) ran in this step: the pending-drop entry of s is gone
Finalized(s) == pending_drop_by_index[s] # NoId /\ pending_drop_by_index'[s] = NoId

\* C1: the instance of every processor the RT thread holds (slot array or
\* pending-retire array) is alive in `plugins` or `pending_drop_by_index`,
\* and a pending-drop entry is finalized only in a step that found the
\* retired processor of its index on the retirement queue.
C1_InstanceOutlivesProcessor ==
    /\ [](RtHeld \subseteq Alive)
    /\ [][\A s \in Slots : Finalized(s) => retire_rx /\ s \in RetiredIndices]_vars

\* C1 witness: a plugin unloaded while running whose processor the RT thread
\* still keeps in its pending-retire array, the instance waiting in pending drop
C1_Witness ==
    \E s \in Slots : pending_retire[s] # NoId /\ pending_drop_by_index[s] = pending_retire[s]

\* nothing is in flight between the two threads and nothing is left to initialize
Quiescent ==
    /\ cmd_ring = <<>>
    /\ pending_audio_msgs = <<>>
    /\ pending_init = <<>>
    /\ retire_ring = <<>>
    /\ pending_retire = NoProcessors

\* C2: every unload accepted while running is eventually finalized; so once
\* the stream runs with nothing in flight (no tick or callback has anything
\* left to do) no entry is left in pending_drop_by_index.
C2_UnloadEventuallyFinalized ==
    (output_stream /\ Quiescent) => PendingDrop = {}

\* C3: the index tables are mutually inverse, every instance that is loaded
\* or pending drop has an index in 0..MAX_PLUGINS-1 of its own, and an index
\* is handed out only if the RT thread holds no processor for it and no
\* retirement for it is waiting on the retirement queue.
C3_IndexTables ==
    /\ [](/\ \A id \in Ids, s \in Slots : rt_index_by_id[id] = s <=> id_by_rt_index[s] = id
          /\ \A id \in Alive : rt_index_by_id[id] \in Slots
          /\ \A s \in Slots : pending_drop_by_index[s] # NoId =>
                                 rt_index_by_id[pending_drop_by_index[s]] = s
          /\ \A a, b \in Alive : a # b => rt_index_by_id[a] # rt_index_by_id[b])
    /\ [][\A id \in Ids :
            (rt_index_by_id[id] = NoIdx /\ rt_index_by_id'[id] # NoIdx) =>
                LET i == rt_index_by_id'[id]
                IN /\ rt_processors[i] = NoId
                   /\ pending_retire[i] = NoId
                   /\ i \notin RetiredIndices]_vars

\* C3 witness: the index of an unloaded instance was handed out again and the
\* RT thread now holds the new instance's processor in that slot
C3_Witness ==
    /\ 1 \in unloaded
    /\ rt_index_by_id[2] = 0
    /\ rt_processors[0] = 2

\* C4: GetRuntimeStats never counts an unloaded id as active (the active
\* count is the number of instances loaded and not unloaded), and an
\* instance unloaded while running is counted as pending unload until the
\* control thread has taken its retired processor off the retirement queue.
C4_StatsAfterUnload ==
    LET st == handle_GetRuntimeStats(PM)[1].val
    IN /\ unloaded \cap plugins = {}
       /\ st[1] = Cardinality((1..next_id) \ unloaded)
       /\ awaiting_retire \subseteq PendingDrop
       /\ st[2] >= Cardinality(awaiting_retire)

\* C4 witness: an unload was accepted while running and the RT thread has
\* not retired the processor yet
C4_Witness ==
    \E s \in Slots : /\ rt_processors[s] \in awaiting_retire
                     /\ runtime_stats(PM).pending_unload_count = 1
                     /\ runtime_stats(PM).active_plugin_count = 1

\* C5: while the stream runs and every queued and spilled message has been
\* applied (and no deferred initialization is due), the RT order equals the
\* rt indices of the ids of `order`, in that order.
C5_RtOrderFollowsOrder ==
    (output_stream /\ cmd_ring = <<>> /\ pending_audio_msgs = <<>> /\ pending_init = <<>>)
        => rt_order = rt_order_of(PM)

TaggedInFlight == TaggedCount(cmd_ring \o pending_audio_msgs)

C7_OneResponsePerLine ==
    last_line # "none" => Len(responses) = 1

\* C8: Start answers Started or Error; whatever the outcome, every command
\* that follows is answered by one response, and a Stop, in whatever state
\* it finds the engine, answers Success.
C8_StartAnswersAndEngineSurvives ==
    /\ last_line = "Start" => responses \in {<<Response("Started")>>, <<Response("Error")>>}
    /\ last_line = "Stop" => responses = <<Response("Success")>>
    /\ last_line \notin {"none", "unparsed"} => Len(responses) = 1
    /\ \A outcome \in StartOutcomes :
          handle_Stop(handle_Start(EN, PM, outcome).en).responses = <<Response("Success")>>

\* C8 witness: a Start failed after the queues were created, and the Stop
\* that followed was answered with Success
C8_Witness ==
    /\ last_line = "Stop"
    /\ last_mode = "half_started"
    /\ responses = <<Response("Success")>>

\* C9: a Stop that finds no stream running answers Success, and the engine
\* state a Stop leaves is the state a second Stop would leave (streams, queue
\* endpoints, queues, spill list; Stop does not touch the plugin bookkeeping).
C9_StopIdempotent ==
    /\ (last_line = "Stop" /\ last_mode # "running") => responses = <<Response("Success")>>
    /\ last_line = "Stop" => handle_Stop(EN).en = EN
    /\ handle_Stop(handle_Stop(EN).en).en = handle_Stop(EN).en
    /\ ~output_stream => handle_Stop(EN).responses = <<Response("Success")>>

\* C9 witness: Stop was issued with no stream and no queue left, and
\* answered Success
C9_Witness ==
    /\ last_line = "Stop"
    /\ last_mode = "stopped"
    /\ responses = <<Response("Success")>>
    /\ unloaded # {}

\* C10: once Stop has run (no command queue is held), the engine holds no
\* stream and no queue endpoint, and no meter or channel-scan event is
\* written.
C10_StopDropsEverything ==
    ~command_tx =>
        /\ ~input_stream /\ ~output_stream
        /\ ~level_rx /\ ~channel_rx /\ ~retire_rx
        /\ events = {}

\* C11: Stop leaves the plugin bookkeeping alone, and a plugin loaded before
\* a Stop/Start cycle has its processor on the RT thread after the Start: so
\* while the stream runs with nothing in flight and nothing left to
\* initialize, every loaded plugin has its processor in its RT slot.
C11_LoadedPluginsHaveProcessors ==
    (output_stream /\ Quiescent) =>
        \A id \in plugins : /\ rt_index_by_id[id] \in Slots
                             /\ rt_processors[rt_index_by_id[id]] = id

\* C12: ReorderPlugins with an empty list answers Success and leaves `order`
\* empty, and once every message queued so far has been applied by the RT
\* thread (no command having followed) the RT order is empty too.
C12_EmptyReorder ==
    (last_line = "ReorderPlugins" /\ order = <<>>) =>
        /\ responses = <<Response("Success")>>
        /\ (output_stream /\ cmd_ring = <<>> /\ pending_audio_msgs = <<>>) => rt_order = <<>>

\* the peak of device channel sel over the frames a callback read from the
\* audio ring (zero for a channel the device does not have)
InputPeakOf(b, sel) ==
    IF sel >= b.rt.channels THEN 0
    ELSE PeakOf([i \in 1..(b.data_len \div b.rt.channels) |->
                    LET k == (i - 1) * b.rt.channels + sel + 1
                    IN IF k <= Len(b.audio) THEN b.audio[k] ELSE 0])

\* C13: a callback that runs with global mute set writes zero to every
\* sample of its output block, and the meter sample it pushes carries
\* output [0, 0] and the peaks of the selected input channels.
C13_GlobalMuteSilence ==
    (block.phase = "out" /\ block.rt.rt_global_mute) =>
        /\ Len(block.out.data) = block.data_len
        /\ \A k \in DOMAIN block.out.data : block.out.data[k] = 0
        /\ \A k \in DOMAIN block.out.meter :
              /\ block.out.meter[k].output = <<0, 0>>
              /\ block.out.meter[k].input = <<InputPeakOf(block, block.rt.rt_input_l),
                                              InputPeakOf(block, block.rt.rt_input_r)>>

\* a muted callback with signal on the input and a live plugin in the chain
\* pushed its meter sample
C13_Witness ==
    /\ block.phase = "out" /\ block.rt.rt_global_mute
    /\ block.out.invoked # {}
    /\ Len(block.out.meter) = 1
    /\ block.out.meter[1].input = <<2, 1>>
    /\ Len(block.out.data) = 4

\* the samples of input channel ch in the block the input device delivered
InputChannel(b, ch) ==
    [i \in 1..(Len(b.input) \div b.in_channels) |-> b.input[(i - 1) * b.in_channels + ch + 1]]

\* C20: with the channel scan enabled and an input of N channels (N within
\* the scan width), every channel snapshot pushed carries the peaks of the
\* N input channels in entries 0..N-1 and zero in the remaining entries.
C20_ChannelLevelsOfInput ==
    (block.phase = "out" /\ block.rt.rt_scan_enabled /\ block.in_channels <= ScanWidth) =>
        \A k \in DOMAIN block.out.peaks :
            \A ch \in 0..(ScanWidth - 1) :
                block.out.peaks[k][ch] = IF ch < block.in_channels
                                         THEN PeakOf(InputChannel(block, ch))
                                         ELSE 0

AllAllocated == \A s \in Slots : id_by_rt_index[s] # NoId

\* C14: at most MAX_PLUGINS rt indices are allocated, each to one id; with
\* every index allocated a LoadPlugin of any path answers Error and leaves
\* the plugin manager (plugins, order, pending_init, the index tables) and
\* the engine, its queues and the callback's state as they were.
C14_LoadAtLimit ==
    /\ Cardinality({i \in Ids : rt_index_by_id[i] # NoIdx}) <= MAX_PLUGINS
    /\ \A i \in Ids : rt_index_by_id[i] # NoIdx => id_by_rt_index[rt_index_by_id[i]] = i
    /\ \A s \in Slots : id_by_rt_index[s] # NoId => rt_index_by_id[id_by_rt_index[s]] = s
    /\ AllAllocated =>
          \A path \in Paths :
              LET h == handle_LoadPlugin(EN, PM, path, 0)
              IN /\ h.responses = <<Response("Error")>>
                 /\ h.pm = PM
                 /\ h.en = EN

\* a loadable plugin was refused while the stream ran with every index allocated
C14_Witness ==
    /\ AllAllocated /\ output_stream
    /\ last_load = [path |-> "Plain.vst3", responses |-> <<Response("Error")>>]

\* C15: no unload, with the stream running or stopped, drops a plugin
\* instance before the key of its module is in the burned set (where a
\* library handle is retained with every key).
C15_UnloadPinsLibrary == unpinned = {}

\* the number of processors of plugin p in the hands of the RT thread or on
\* their way to or from it: in an AddProcessor message of the command queue,
\* in a slot, in the pending-retire array, in the retirement queue
RtCustody(p) ==
    Cardinality({k \in DOMAIN cmd_ring :
                    cmd_ring[k].kind = "AddProcessor" /\ cmd_ring[k].processor = p})
    + Cardinality({s \in Slots : rt_processors[s] = p})
    + Cardinality({s \in Slots : pending_retire[s] = p})
    + Cardinality({k \in DOMAIN retire_ring : retire_ring[k].processor = p})

RemovalQueued(s) ==
    \E k \in DOMAIN cmd_ring : cmd_ring[k].kind = "RemoveProcessor" /\ cmd_ring[k].index = s

\* C16: an audio callback destroys no processor: each one it holds or
\* receives is, after the callback, in a slot, in the pending-retire array
\* or in the retirement queue; a processor leaves its slot only on a
\* RemoveProcessor message, and it leaves the pending-retire array only
\* for the retirement queue.
C16_NoProcessorDroppedInCallback ==
    [][OutputCallback =>
         /\ \A p \in Ids : RtCustody(p)' = RtCustody(p)
         /\ \A s \in Slots :
               /\ (rt_processors[s] # NoId /\ ~RemovalQueued(s))
                     => rt_processors'[s] = rt_processors[s]
               /\ (rt_processors[s] # NoId /\ rt_processors'[s] # rt_processors[s])
                     => \/ pending_retire'[s] = rt_processors[s]
                        \/ \E k \in DOMAIN retire_ring' :
                              retire_ring'[k] = RetiredProcessor(s, rt_processors[s])
               /\ (pending_retire[s] # NoId /\ pending_retire'[s] # pending_retire[s])
                     => \E k \in DOMAIN retire_ring' :
                           retire_ring'[k] = RetiredProcessor(s, pending_retire[s])]_vars

\* a callback found the retirement queue full and parked a removed processor
C16_Witness ==
    /\ output_stream
    /\ retire_ring # <<>>
    /\ \E s \in Slots : pending_retire[s] # NoId /\ rt_processors[s] = NoId

AbortedReturnsError ==
    \A n \in sup.aborted :
        /\ sup.pending_reply_tx # n
        /\ sup.mailbox[n] = <<Response("Error")>>
        /\ sup.results[n] \in {NotReturned, Ok(Response("Error"))}
        /\ sup.results[n] = NotReturned => (sup.pc = "awaiting" /\ sup.call = n)

\* C18: when a reader thread meets EOF while execute_command awaits its
\* response (its sender still in the slot), the call is sent an Error and
\* returns it, not a timeout; after any EOF the pending-reply slot is empty.
C18_EofAbortsPendingCommand ==
    /\ []AbortedReturnsError
    /\ [][(\E g \in Engines : Reader_Eof(g)) =>
             /\ sup'.pending_reply_tx = 0
             /\ (sup.pc = "awaiting" /\ sup.pending_reply_tx = sup.call) =>
                   sup'.mailbox[sup.call] = <<Response("Error")>>]_vars

\* the engine exited while the first call waited for its response, and the
\* call returned the Error
C18_Witness ==
    /\ 1 \in sup.aborted
    /\ sup.results[1] = Ok(Response("Error"))
    /\ sup.exited[1] /\ sup.reader[1] = "done"
    /\ sup.pending_reply_tx = 0

\* C19: a Started response carries the sample rate of the configuration the
\* output stream was built with and, where that configuration fixes a
\* buffer size, that buffer size; on a device whose buffer range has
\* min = max the response carries that size.
C19_StartedMatchesBuiltConfig ==
    (watch = "config" /\ block.phase = "answered" /\ block.response.kind = "Started") =>
        /\ block.response.sample_rate = block.result.built.sample_rate
        /\ block.result.built.buffer_size.fixed =>
               block.response.buffer_size = block.result.built.buffer_size.size
        /\ (block.out_dev.range_known /\ block.out_dev.min = block.out_dev.max) =>
               block.response.buffer_size = block.out_dev.min

\* C21: every value Smoother::next returns lies between the previous value
\* and the target (monotonic, no overshoot), and a smoother that has not
\* reached its target moves: the sequence reaches the target.
C21_SmootherConverges ==
    (watch = "smoother") =>
        LET n == Smoother_next(block.sm)
        IN /\ \/ block.sm.current <= n.current /\ n.current <= block.sm.target
              \/ block.sm.current >= n.current /\ n.current >= block.sm.target
           /\ n.current = block.sm.current => block.sm.current = block.sm.target

PendingIds == {pending_init[k] : k \in DOMAIN pending_init}

\* an AddProcessor message for p waits in the spill list
Spilled(p) ==
    \E k \in DOMAIN pending_audio_msgs :
        pending_audio_msgs[k].kind = "AddProcessor" /\ pending_audio_msgs[k].processor = p

\* this step is the control tick
TickStep ==
    \E meter_due \in BOOLEAN, silence_due \in BOOLEAN :
        LET h == about_to_wait(EN, PM, updates_received, 0, meter_due, silence_due)
        IN PM' = h.pm /\ EN' = h.en

Eligible(pm) == {id \in pm.plugins : SeqContains(pm.order, id) /\ ~SeqContains(pm.pending_init, id)}

\* C23: after prepare_for_audio_start no processor of a loaded non-pending
\* instance whose prepare_processing failed is handed to the RT thread,
\* and the processor of every other loaded non-pending instance is.
C23_FailedPrepareSkipped ==
    (watch = "prepare" /\ block.phase = "prepared") =>
        \A id \in Eligible(block.pm) :
            (\E s \in Slots : block.processors[s] = id) <=> id \notin block.failing

BuildFailed(outcome) == outcome \in {"output_build_error", "input_build_error"}

\* C24: every Start is answered, after one stream-build attempt or two; the
\* second is made exactly when a stream build of the first failed, with the
\* device's default sample rate and no fixed buffer size; when the second
\* fails too the answer is Error.
C24_OneRetryWithDefaults ==
    (watch = "config" /\ block.phase = "answered") =>
        /\ block.response.kind \in {"Started", "Error"}
        /\ block.response.kind = "Started" <=> block.result.ok
        /\ block.result.attempts \in {1, 2}
        /\ block.result.attempts = 2 <=> BuildFailed(block.outcomes[1])
        /\ block.result.attempts = 2 =>
              /\ block.result.built = [sample_rate |-> block.out_dev.default_rate,
                                       buffer_size |-> BufferSize_Default]
              /\ block.result.ok <=> block.outcomes[2] = "ok"
        /\ block.result.attempts = 1 =>
              /\ block.result.built =
                     resolve_config(block.out_dev, block.sample_rate,
                                    block.buffer_size).out_stream_config
              /\ block.result.ok <=> block.outcomes[1] = "ok"

\* a Start that asked for a rate and a buffer size, failed to build its
\* input stream and was answered Started by the retry
C24_Witness ==
    /\ block.phase = "answered"
    /\ block.sample_rate.some /\ block.sample_rate.value # block.out_dev.default_rate
    /\ block.buffer_size.some
    /\ block.outcomes = <<"input_build_error", "ok">>
    /\ block.response.kind = "Started"

\* C25: the engine holds an input stream only when the output stream has
\* been started: a Start whose output stream fails to start leaves no input
\* stream behind.
C25_NoInputStreamWithoutOutput == input_stream => output_stream

\* C26: `order` holds exactly the ids of `plugins`, each of them once,
\* whatever list ReorderPlugins was given.
C26_OrderListsLoadedPlugins ==
    /\ {order[k] : k \in DOMAIN order} = plugins
    /\ Len(order) = Cardinality(plugins)

\* the RT state with the bypassed stages taken out of the order
WithoutBypassed(rt) ==
    [rt EXCEPT !.rt_order = SelectSeq(rt.rt_order, LAMBDA idx : ~rt.rt_bypassed[idx])]

\* what the callback of block b would have produced with the RT state rt
OutputWith(b, rt) ==
    process_block(rt, b.audio, b.data_len, b.scan_due, b.level_room, b.channel_room)

\* C27: a bypassed stage hands its input on unchanged and keeps the
\* alternation of the two buffers intact: the block written to the device,
\* and its level, are those of the same chain without the bypassed stages,
\* and with every stage bypassed they are those of the chain input.
C27_BypassedStageIsTransparent ==
    (watch = "block" /\ block.phase = "out") =>
        /\ block.out.data = OutputWith(block, WithoutBypassed(block.rt)).data
        /\ block.out.meter = OutputWith(block, WithoutBypassed(block.rt)).meter
        /\ (\A k \in DOMAIN block.rt.rt_order : block.rt.rt_bypassed[block.rt.rt_order[k]]) =>
               block.out.data = OutputWith(block, [block.rt EXCEPT !.rt_global_bypass = TRUE]).data

\* a chain of a live plugin followed by a bypassed stage: the output is the
\* plugin's, not the input
C27_Witness ==
    /\ block.phase = "out"
    /\ Len(block.rt.rt_order) = 2
    /\ ~block.rt.rt_bypassed[block.rt.rt_order[1]]
    /\ block.rt.rt_bypassed[block.rt.rt_order[2]]
    /\ block.out.invoked # {}
    /\ block.out.data # OutputWith(block, [block.rt EXCEPT !.rt_global_bypass = TRUE]).data

\* the chain of this block runs (core.rs:1557)
ChainRuns(rt) == ~rt.rt_global_bypass /\ rt_active_count(rt) > 0 /\ Len(rt.rt_order) > 0

\* stage k of the order adds no signal: it is bypassed or muted, or it has
\* no processor, or its processor's kill switch is thrown
AddsNoSignal(rt, k) ==
    LET idx == rt.rt_order[k]
    IN \/ rt.rt_bypassed[idx] \/ rt.rt_muted[idx]
       \/ rt.rt_processors[idx] = NoId \/ ~rt.active[idx]

\* the stages of plugins that are muted; those that are muted and not bypassed
MutedStages(rt) ==
    {k \in DOMAIN rt.rt_order :
        rt.rt_muted[rt.rt_order[k]] /\ rt.rt_processors[rt.rt_order[k]] # NoId}
MutingStages(rt) == {k \in MutedStages(rt) : ~rt.rt_bypassed[rt.rt_order[k]]}

Silent(data) == \A k \in DOMAIN data : data[k] = 0

\* C28 (as the code has it): in a chain that runs, a plugin whose mute flag
\* is set and whose bypass flag is not set is not called, and its stage
\* leaves silence: when no later stage adds signal the block is silent.
C28_MutedStageIsSilent ==
    (watch = "block" /\ block.phase = "out" /\ ChainRuns(block.rt)) =>
        \A k \in MutingStages(block.rt) :
            /\ block.rt.rt_processors[block.rt.rt_order[k]] \notin block.out.invoked
            /\ (\A j \in (k + 1)..Len(block.rt.rt_order) : AddsNoSignal(block.rt, j)) =>
                   Silent(block.out.data)

\* C28 (as stated): in a chain that runs, a plugin whose mute flag is set is
\* not called, and its stage leaves silence: when no later stage adds signal
\* the block is silent.
C28_EveryMutedStageIsSilent ==
    (watch = "block" /\ block.phase = "out" /\ ChainRuns(block.rt)) =>
        \A k \in MutedStages(block.rt) :
            /\ block.rt.rt_processors[block.rt.rt_order[k]] \notin block.out.invoked
            /\ (\A j \in (k + 1)..Len(block.rt.rt_order) : AddsNoSignal(block.rt, j)) =>
                   Silent(block.out.data)

\* a live plugin was called and the muted plugin after it silenced the block
C28_Witness ==
    /\ block.phase = "out" /\ ChainRuns(block.rt)
    /\ Len(block.rt.rt_order) = 2
    /\ 2 \in MutingStages(block.rt)
    /\ block.rt.active[block.rt.rt_order[2]]
    /\ block.out.invoked # {}
    /\ block.out.data # <<>> /\ Silent(block.out.data)

\* C29: the burned set only grows, the pinned libraries only get appended
\* to, and there is one pinned library per burned key: the modules of the
\* pinned libraries have pairwise different keys, those keys are the burned
\* set, and burned_library_count is the number of keys burned so far.
C29_OnePinPerModule ==
    /\ [](/\ Len(burned_libraries) = Cardinality(burned_library_keys)
          /\ {burned_library_key(burned_libraries[k]) : k \in DOMAIN burned_libraries}
                 = burned_library_keys
          /\ runtime_stats(PM).burned_library_count = Cardinality(burned_library_keys))
    /\ [][/\ burned_library_keys \subseteq burned_library_keys'
          /\ SubSeq(burned_libraries', 1, Len(burned_libraries)) = burned_libraries]_vars

\* the same module was loaded under two spellings of its path and unloaded
\* twice with the stream running: one pinned library
C29_Witness ==
    /\ burned_libraries = <<"Plain.vst3">>
    /\ last_load.path = "PLAIN.VST3"
    /\ next_id = 2 /\ plugins = {}
    /\ \A s \in Slots : pending_drop_by_index[s] = NoId

\* the entries enumerate added to the scanner's list
Merged == {i \in Len(block.scan) + 1 .. Len(block.dev_list) : TRUE}

\* C30: the list enumerate() returns is the scanner's list followed by the
\* active input and output device where the scan has no entry of that
\* device, so no device is listed twice, however the stream was started.
C30_MergeOnlyOmitted ==
    (watch = "devices" /\ block.phase = "listed") =>
        /\ SubSeq(block.dev_list, 1, Len(block.scan)) = block.scan
        /\ \A i \in Merged :
              /\ block.dev_list[i] \in {block.dm.active_input, block.dm.active_output}
              /\ \A j \in 1..Len(block.scan) : block.scan[j].dev # block.dev_list[i].dev
        /\ \A a \in {block.dm.active_input, block.dm.active_output} \ {NoDevice} :
              \E i \in 1..Len(block.dev_list) : block.dev_list[i].dev = a.dev

\* C31: after a Stop the device manager records no active input and no
\* active output, and while no stream runs the list enumerate() returns is
\* the scanner's list with nothing merged in.
C31_StopClearsActiveDevices ==
    watch = "devices" =>
        /\ block.phase = "stopped" => block.dm = DeviceManager_new
        /\ (block.phase = "listed" /\ ~block.streaming) => block.dev_list = block.scan

\* C32: the name the scan gives a device resolves, on the same device
\* list, to that device and to no other.
C32_ScanNameResolvesToDevice ==
    (watch = "resolve" /\ block.phase = "resolved") => block.resolved = block.dev

\* no meter sample is waiting for the tick or counted by it
NoMeterData == updates_received = 0 /\ (level_rx => level_ring = 0)

\* C33: in every engine state in which the last LevelMeter event carried
\* levels and no meter sample is left, the tick at which the meter interval
\* and the silence timeout have both passed writes the all-zero LevelMeter
\* event.
C33_SilenceAfterLevels ==
    (watch = "silence" /\ last_meter = "levels" /\ NoMeterData) =>
        "LevelMeterSilence" \in about_to_wait(EN, PM, updates_received, 0, TRUE, TRUE).events

\* C34: after every process() call fewer than input_chunk_size frames are
\* held back, the conversions made so far number the frames fed so far
\* divided by input_chunk_size (rounded down), the k-th conversion was
\* given the k-th run of input_chunk_size frames in arrival order on every
\* channel, and the frames held back are the ones fed since.
C34_ResamplerKeepsEveryFrame ==
    (watch = "resampler") =>
        LET rs == block.rs
            size == rs.input_chunk_size
            done == Len(block.conversions)
        IN /\ rs.input_frames_collected >= 0
           /\ rs.input_frames_collected < size
           /\ done = Len(block.fed) \div size
           /\ \A k \in 1..done : \A ch \in 1..rs.channels : \A j \in 1..size :
                 block.conversions[k][ch][j] = 10 * block.fed[(k - 1) * size + j] + ch
           /\ done * size + rs.input_frames_collected = Len(block.fed)
           /\ \A ch \in 1..rs.channels : \A j \in 1..rs.input_frames_collected :
                 rs.input_accumulation[ch][j] = 10 * block.fed[done * size + j] + ch

\* six frames fed to a two-channel resampler of chunk size 3: two
\* conversions, the second of frames 4 to 6, nothing held back
C34_Witness ==
    /\ watch = "resampler"
    /\ block.rs.input_chunk_size = 3 /\ block.rs.channels = 2
    /\ block.fed = <<1, 2, 2, 1, 1, 2>>
    /\ Len(block.conversions) = 2
    /\ block.conversions[2] = <<(<<11, 11, 21>>), (<<12, 12, 22>>)>>
    /\ block.rs.input_frames_collected = 0

\* the control messages on their way to the RT thread, in the order in which
\* it will get them: the command queue, then the spill list
InDeliveryOrder == cmd_ring \o pending_audio_msgs

\* C35: no step puts a message ahead of one issued before it: as long as
\* messages are on their way, they are the ones that were on their way
\* before the step, less those the RT thread took from the head of the
\* command queue, followed by the ones the step issued.
C35_MessagesKeepIssueOrder ==
    [][InDeliveryOrder' # <<>> =>
          \E k \in 0..Len(cmd_ring) :
              LET rest == SubSeq(InDeliveryOrder, k + 1, Len(InDeliveryOrder))
              IN /\ Len(rest) <= Len(InDeliveryOrder')
                 /\ SubSeq(InDeliveryOrder', 1, Len(rest)) = rest]_vars

\* C36: while a stream runs and no control message is on its way, the
\* bypass flag the RT thread holds for the slot of every loaded plugin is
\* the plugin's membership in `bypassed` (SetMute, `muted` and rt_muted are
\* handled by the same code, line for line).
C36_RtFlagsAgree ==
    (output_stream /\ cmd_ring = <<>> /\ pending_audio_msgs = <<>>) =>
        \A id \in plugins :
            rt_index_by_id[id] \in Slots =>
                rt_bypassed[rt_index_by_id[id]] = (id \in bypassed)

\* C37: a response of the engine that execute_command returns to the caller
\* of command n is the engine's response to command n.
C37_ResponseOfOwnCommand ==
    watch = "supervisor" =>
        \A n \in Calls :
            (sup.results[n].ok /\ sup.results[n].resp.kind = "Success") =>
                sup.results[n].resp.val = <<n>>

\* C38: when Start has answered Error the engine holds no stream and no
\* queue endpoint, and no control message is ever in a command queue that
\* no callback reads.
C38_FailedStartLeavesStopped ==
    /\ (last_line = "Start" /\ responses = <<Response("Error")>>) =>
           /\ ~input_stream /\ ~output_stream
           /\ ~command_tx /\ ~level_rx /\ ~channel_rx /\ ~retire_rx
    /\ ~output_stream => cmd_ring = <<>>

\* C39: an UnloadPlugin for an id that is not in `plugins` answers Error,
\* puts no message in the command queue or the spill list and leaves every
\* field of the plugin manager as it was.
C39_UnloadOfUnknownChangesNothing ==
    [][\A id \in Ids \ plugins :
          Cmd_UnloadPlugin(id) =>
              /\ responses' = <<Response("Error")>>
              /\ cmd_ring' = cmd_ring
              /\ pending_audio_msgs' = pending_audio_msgs
              /\ pmVars' = pmVars]_vars

\* an UnloadPlugin has just answered Error while a stream runs and an
\* earlier unload is still waiting in pending_drop_by_index
C39_Witness ==
    /\ last_line = "UnloadPlugin"
    /\ responses = <<Response("Error")>>
    /\ output_stream
    /\ \E idx \in DOMAIN pending_drop_by_index : pending_drop_by_index[idx] # NoId

\* the retired processors of slot s that the RT side still holds or has
\* handed over and the control thread has not yet taken
RetiredAt(s) ==
    Cardinality({k \in DOMAIN retire_ring : retire_ring[k].index = s})
    + (IF pending_retire[s] # NoId THEN 1 ELSE 0)

\* C40: the retirement queue and the pending-retire array together hold at
\* most one retired processor of each rt index, hence never more than
\* MAX_PLUGINS in all.
C40_OneRetiredPerIndex ==
    /\ \A s \in Slots : RetiredAt(s) <= 1
    /\ Len(retire_ring) + Cardinality({s \in Slots : pending_retire[s] # NoId}) <= MAX_PLUGINS

\* every rt index has a retired processor on its way while the stream runs,
\* one of them parked in the pending-retire array
C40_Witness ==
    /\ output_stream
    /\ \A s \in Slots : RetiredAt(s) = 1
    /\ \E s \in Slots : pending_retire[s] # NoId

====
